---- MODULE Spec2Model ----
(***************************************************************************)
(* Atomus TAM Research - scoring engine (src/src/scoring_engine.py).       *)
(*                                                                         *)
(* The engine is modelled as a state machine over its statistics           *)
(* accumulator, its loaded configuration and the outcome of the last call. *)
(* Python floats are modelled as exact decimal fixed-point numbers:        *)
(* component scores in hundredths of a point (CENTI), weights and the      *)
(* bonus multiplier in hundredths, total scores in millionths (MICRO);     *)
(* round(x, 1) is round-half-even to tenths.  Text is a sequence of        *)
(* one-character strings, so that `in`, lower() and split() are computed.  *)
(***************************************************************************)
EXTENDS Integers, Sequences, FiniteSets, TLC

VARIABLES
    config,        \* self.config, fixed when the engine is constructed
    stats,         \* self.stats, the statistics accumulator
    company_data,  \* argument of the last score_company call
    outcome,       \* what that call returned or raised
    locals,        \* score_company's local scores before rounding
    calls,         \* number of score_company calls made so far
    returned,      \* per-call history: the results returned so far
    batch,         \* last batch_score_companies call: input, results, failed
    tier_in,       \* argument of a direct _classify_tier call
    tier_out,      \* its return value
    history,       \* per-call history: arguments before and after, outcome
    threads,       \* concurrent score_company calls: position and locals
    fs,            \* the configuration files on disk
    config_path,   \* the config_path argument of the constructor
    matcher,       \* one _keyword_matches call: arguments and return value
    retry          \* one call of a function wrapped by retry_with_backoff

vars ==
    <<config, stats, company_data, outcome, locals, calls, returned, batch,
      tier_in, tier_out, history, threads, fs, config_path,
                   matcher, retry>>

---------------------------------------------------------------------------
(* Fixed-point arithmetic *)

CENTI ==
    10 * 10

MICRO ==
    CENTI * CENTI * CENTI

Min(a, b) ==
    IF a <= b THEN a ELSE b

Max(a, b) ==
    IF a >= b THEN a ELSE b

\* round(x, 1): x in 1/unit points, result in tenths, ties to the even tenth.
Round1(x, unit) ==
    LET q == unit \div 10
        base == x \div q
        r == x % q
    IN  IF 2 * r < q THEN base
        ELSE IF 2 * r > q THEN base + 1
        ELSE IF base % 2 = 0 THEN base ELSE base + 1

---------------------------------------------------------------------------
(* Text: str.lower(), `sub in text`, str.split() *)

UpperChars ==
    <<"A", "B", "C", "D", "E", "F", "G", "H", "I", "J", "K", "L", "M",
      "N", "O", "P", "Q", "R", "S", "T", "U", "V", "W", "X", "Y", "Z">>

LowerChars ==
    <<"a", "b", "c", "d", "e", "f", "g", "h", "i", "j", "k", "l", "m",
      "n", "o", "p", "q", "r", "s", "t", "u", "v", "w", "x", "y", "z">>

\* the lower-case letter of each upper-case letter
LowerMap ==
    [c \in {UpperChars[i] : i \in 1..Len(UpperChars)} |->
        LowerChars[CHOOSE i \in 1..Len(UpperChars) : UpperChars[i] = c]]

LowerChar(c) ==
    IF c \in DOMAIN LowerMap THEN LowerMap[c] ELSE c

\* s.lower(), as a sequence
Lower(s) ==
    SubSeq([i \in 1..Len(s) |-> LowerChar(s[i])], 1, Len(s))

\* sub in text
Contains(sub, text) ==
    \E i \in 0..(Len(text) - Len(sub)) :
        SubSeq(text, i + 1, i + Len(sub)) = sub

RECURSIVE SplitFrom(_, _, _)
SplitFrom(s, i, cur) ==
    IF i > Len(s)
    THEN IF cur = <<>> THEN <<>> ELSE <<cur>>
    ELSE IF s[i] = " "
         THEN IF cur = <<>>
              THEN SplitFrom(s, i + 1, <<>>)
              ELSE <<cur>> \o SplitFrom(s, i + 1, <<>>)
         ELSE SplitFrom(s, i + 1, Append(cur, s[i]))

Split(s) ==
    SplitFrom(s, 1, <<>>)

Take(s, n) ==
    SubSeq(s, 1, Min(n, Len(s)))

SP ==
    <<" ">>

W_defense ==
    <<"d", "e", "f", "e", "n", "s", "e">>
W_military ==
    <<"m", "i", "l", "i", "t", "a", "r", "y">>
W_aerospace ==
    <<"a", "e", "r", "o", "s", "p", "a", "c", "e">>
W_DoD ==
    <<"D", "o", "D">>
W_government ==
    <<"g", "o", "v", "e", "r", "n", "m", "e", "n", "t">>
W_contractor ==
    <<"c", "o", "n", "t", "r", "a", "c", "t", "o", "r">>
W_manufacturing ==
    <<"m", "a", "n", "u", "f", "a", "c", "t", "u", "r", "i", "n", "g">>
W_engineering ==
    <<"e", "n", "g", "i", "n", "e", "e", "r", "i", "n", "g">>
W_software ==
    <<"s", "o", "f", "t", "w", "a", "r", "e">>
W_AI ==
    <<"A", "I">>
W_IoT ==
    <<"I", "o", "T">>
W_cloud ==
    <<"c", "l", "o", "u", "d">>
W_cybersecurity ==
    <<"c", "y", "b", "e", "r", "s", "e", "c", "u", "r", "i", "t", "y">>
W_automation ==
    <<"a", "u", "t", "o", "m", "a", "t", "i", "o", "n">>
W_digital ==
    <<"d", "i", "g", "i", "t", "a", "l">>
W_ISO ==
    <<"I", "S", "O">>
W_SOC ==
    <<"S", "O", "C">>
W_FedRAMP ==
    <<"F", "e", "d", "R", "A", "M", "P">>
W_certified ==
    <<"c", "e", "r", "t", "i", "f", "i", "e", "d">>
W_compliant ==
    <<"c", "o", "m", "p", "l", "i", "a", "n", "t">>
W_audit ==
    <<"a", "u", "d", "i", "t">>
W_assessment ==
    <<"a", "s", "s", "e", "s", "s", "m", "e", "n", "t">>
W_aircraft ==
    <<"a", "i", "r", "c", "r", "a", "f", "t">>
W_technology ==
    <<"t", "e", "c", "h", "n", "o", "l", "o", "g", "y">>
W_united_states ==
    <<"u", "n", "i", "t", "e", "d", " ", "s", "t", "a", "t", "e", "s">>
W_usa ==
    <<"u", "s", "a">>
W_us ==
    <<"u", "s">>
W_United_States ==
    <<"U", "n", "i", "t", "e", "d", " ", "S", "t", "a", "t", "e", "s">>
W_hypersonic ==
    <<"h", "y", "p", "e", "r", "s", "o", "n", "i", "c">>
W_nuclear ==
    <<"n", "u", "c", "l", "e", "a", "r">>
W_propulsion ==
    <<"p", "r", "o", "p", "u", "l", "s", "i", "o", "n">>
W_defense_manufacturing ==
    <<"d", "e", "f", "e", "n", "s", "e", " ", "m", "a", "n", "u", "f", "a", "c", "t", "u", "r", "i", "n", "g">>
W_engineering_services ==
    <<"e", "n", "g", "i", "n", "e", "e", "r", "i", "n", "g", " ", "s", "e", "r", "v", "i", "c", "e", "s">>
W_drone ==
    <<"d", "r", "o", "n", "e">>
W_UAS ==
    <<"U", "A", "S">>
W_UAV ==
    <<"U", "A", "V">>
W_UXS ==
    <<"U", "X", "S">>
W_UUV ==
    <<"U", "U", "V">>
W_RF ==
    <<"R", "F">>
W_EW ==
    <<"E", "W">>
W_Electronic_Warfare ==
    <<"E", "l", "e", "c", "t", "r", "o", "n", "i", "c", " ", "W", "a", "r", "f", "a", "r", "e">>
W_Unknown_Company ==
    <<"U", "n", "k", "n", "o", "w", "n", " ", "C", "o", "m", "p", "a", "n", "y">>
W_Unknown ==
    <<"U", "n", "k", "n", "o", "w", "n">>
W_NIST ==
    <<"N", "I", "S", "T">>
W_CMMC ==
    <<"C", "M", "M", "C">>
W_machine_learning ==
    <<"m", "a", "c", "h", "i", "n", "e", " ", "l", "e", "a", "r", "n", "i", "n", "g">>
T_acme ==
    <<"A", "c", "m", "e">>
T_acme_aerospace ==
    <<"A", "c", "m", "e", " ", "A", "e", "r", "o", "s", "p", "a", "c", "e">>
T_kw5 ==
    <<"n", "u", "c", "l", "e", "a", "r", " ", "d", "r", "o", "n", "e", " ", "u", "a", "v", " ", "r", "f", " ", "h", "y", "p", "e", "r", "s", "o", "n", "i", "c">>
T_kw4 ==
    <<"n", "u", "c", "l", "e", "a", "r", " ", "d", "r", "o", "n", "e", " ", "u", "a", "v", " ", "r", "f">>
T_kw3_groups ==
    <<"n", "u", "c", "l", "e", "a", "r", " ", "d", "r", "o", "n", "e", " ", "r", "f", " ", "N", "I", "S", "T", " ", "c", "l", "o", "u", "d">>
T_Hypersonic_Labs ==
    <<"H", "y", "p", "e", "r", "s", "o", "n", "i", "c", " ", "L", "a", "b", "s">>
T_gov ==
    <<"D", "o", "D", " ", "g", "o", "v", "e", "r", "n", "m", "e", "n", "t", " ", "c", "o", "n", "t", "r", "a", "c", "t", "o", "r">>
T_cert ==
    <<"N", "I", "S", "T", " ", "c", "e", "r", "t", "i", "f", "i", "e", "d", " ", "c", "l", "o", "u", "d", " ", "s", "o", "f", "t", "w", "a", "r", "e">>
T_defense_manufacturing ==
    <<"D", "e", "f", "e", "n", "s", "e", " ", "M", "a", "n", "u", "f", "a", "c", "t", "u", "r", "i", "n", "g">>
T_software ==
    <<"S", "o", "f", "t", "w", "a", "r", "e">>
T_cage ==
    <<"1", "A", "2", "3", "4">>
T_canada ==
    <<"C", "a", "n", "a", "d", "a">>
T_usa ==
    <<"U", "S", "A">>
W_electronic_warfare_systems ==
    <<"e", "l", "e", "c", "t", "r", "o", "n", "i", "c", " ", "w", "a", "r", "f", "a", "r", "e", " ", "s", "y", "s", "t", "e", "m", "s">>
W_low_rate_initial_production_run ==
    <<"l", "o", "w", " ", "r", "a", "t", "e", " ", "i", "n", "i", "t", "i", "a", "l", " ", "p", "r", "o", "d", "u", "c", "t", "i", "o", "n", " ", "r", "u", "n">>
T_nucleus ==
    <<"N", "u", "c", "l", "e", "u", "s", " ", "R", "o", "b", "o", "t", "i", "c", "s">>
T_manufacturing_defense ==
    <<"m", "a", "n", "u", "f", "a", "c", "t", "u", "r", "i", "n", "g", " ", "d", "e", "f", "e", "n", "s", "e">>
T_lrip4 ==
    <<"L", "o", "w", " ", "r", "a", "t", "e", " ", "i", "n", "i", "t", "i", "a", "l", " ", "p", "r", "o", "d", "u", "c", "t", "i", "o", "n">>
T_lrip3 ==
    <<"i", "n", "i", "t", "i", "a", "l", " ", "p", "r", "o", "d", "u", "c", "t", "i", "o", "n", " ", "r", "u", "n">>
T_electronic_systems ==
    <<"e", "l", "e", "c", "t", "r", "o", "n", "i", "c", " ", "s", "y", "s", "t", "e", "m", "s">>
T_ai_iot ==
    <<"A", "I", " ", "I", "o", "T", " ", "c", "l", "o", "u", "d">>
T_tech5 ==
    <<"s", "o", "f", "t", "w", "a", "r", "e", " ", "c", "l", "o", "u", "d", " ", "c", "y", "b", "e", "r", "s", "e", "c", "u", "r", "i", "t", "y", " ", "a", "u", "t", "o", "m", "a", "t", "i", "o", "n", " ", "d", "i", "g", "i", "t", "a", "l">>
T_iso_audit ==
    <<"I", "S", "O", " ", "c", "e", "r", "t", "i", "f", "i", "e", "d", " ", "S", "O", "C", " ", "a", "u", "d", "i", "t">>
T_abc ==
    <<"a", "b", "c">>

---------------------------------------------------------------------------
(* Python values and dicts.  A dict is a function whose DOMAIN is its key  *)
(* set; a field value is None, a str or a number.                          *)

None ==
    [tag |-> "none", s |-> <<>>, n |-> 0]

Str(t) ==
    [tag |-> "str", s |-> t, n |-> 0]

Num(k) ==
    [tag |-> "num", s |-> <<>>, n |-> k]

EmptyDict ==
    <<>>

\* dict.get(k, default)
Get(d, k, default) ==
    IF k \in DOMAIN d THEN d[k] ELSE default

\* bool(v)
Truthy(v) ==
    \/ v.tag = "str" /\ v.s # <<>>
    \/ v.tag = "num" /\ v.n # 0

\* d.get(k, ""), the operand of a str concatenation or of .lower()
GetText(d, k) ==
    Get(d, k, Str(<<>>))

RECURSIVE SumFn(_)
SumFn(f) ==
    IF DOMAIN f = {} THEN 0
    ELSE LET k == CHOOSE x \in DOMAIN f : TRUE
         IN  f[k] + SumFn([x \in DOMAIN f \ {k} |-> f[x]])

\* len([kw for kw in keywords if kw in text])
CountFound(keywords, text) ==
    Cardinality({i \in 1..Len(keywords) : Contains(keywords[i], text)})

\* mutant: the keywords are compared as written, not lower-cased
CountFoundLower_AsWritten(keywords, text) ==
    Cardinality({i \in 1..Len(keywords) : Contains(keywords[i], text)})

\* len([kw for kw in keywords if kw.lower() in text])
CountFoundLower(keywords, text) ==
    Cardinality({i \in 1..Len(keywords) :
                    Contains(Lower(keywords[i]), text)})

---------------------------------------------------------------------------
(* CompanyData (src/src/data_processing.py): the fields the engine reads;  *)
(* every field left out of the constructor is None, country excepted.      *)

CompanyDataFields ==
    {"name", "industry", "country", "employee_count", "annual_revenue",
     "description", "defense_contract_score", "technology_relevance_score",
     "compliance_indicators_score", "research_summary", "contract_history",
     "technology_keywords_found", "cage_code", "duns_number"}

CompanyData(kwargs) ==
    [kind |-> "CompanyData",
     fields |-> [k \in CompanyDataFields |->
                    IF k \in DOMAIN kwargs THEN kwargs[k]
                    ELSE IF k = "country" THEN Str(W_United_States)
                    ELSE None]]

Dict(d) ==
    [kind |-> "dict", fields |-> d]

\* asdict(company_data) / company_data.copy()
asdict(cd) ==
    [k \in DOMAIN cd.fields |-> cd.fields[k]]

---------------------------------------------------------------------------
(* Configuration *)

\* _get_default_config; weights in hundredths, tiers in declaration order
_get_default_config ==
    [scoring_weights |->
        [defense_contract_score |-> 35, technology_relevance |-> 30,
         compliance_indicators |-> 25, firmographics |-> 10],
     keywords |->
        [primary |-> [points |-> 10,
                      terms |-> <<W_hypersonic, W_nuclear, W_propulsion,
                                  W_defense_manufacturing,
                                  W_engineering_services>>],
         secondary |-> [points |-> 7,
                        terms |-> <<W_drone, W_UAS, W_UAV, W_UXS, W_UUV>>],
         specialized |-> [points |-> 10,
                          terms |-> <<W_RF, W_EW, W_Electronic_Warfare>>]],
     tier_classification |->
        <<[tier |-> "tier_1", min_score |-> 90, max_score |-> 100],
          [tier |-> "tier_2", min_score |-> 75, max_score |-> 89],
          [tier |-> "tier_3", min_score |-> 60, max_score |-> 74],
          [tier |-> "tier_4", min_score |-> 45, max_score |-> 59],
          [tier |-> "excluded", min_score |-> 0, max_score |-> 44]>>]

---------------------------------------------------------------------------
(* Component scorers: each returns hundredths of a point; an exception     *)
(* inside a scorer is caught there and the scorer returns 0.0.             *)

\* the precomputed-value branch shared by three scorers:
\* float(v) raises on non-numeric text, else min(100, max(0, score))
UsePrecomputed(pre) ==
    IF pre.tag = "num" THEN Min(100 * CENTI, Max(0, pre.n)) ELSE 0

\* mutant: the branch is selected by truthiness, so a precomputed 0 is
\* recomputed from the raw fields
HasPrecomputed_Truthy(company_dict, key) ==
    Truthy(Get(company_dict, key, None))

\* `is not None` test that selects the precomputed branch
HasPrecomputed(company_dict, key) ==
    Get(company_dict, key, None).tag # "none"

\* float(v) raises ValueError on non-numeric text
PrecomputedRaises(company_dict, key) ==
    /\ HasPrecomputed(company_dict, key)
    /\ Get(company_dict, key, None).tag # "num"

\* some d.get(k, "") operand of the scorer's text is not a str
TextRaises(company_dict, keys) ==
    \E k \in keys : GetText(company_dict, k).tag # "str"

\* self.config.get(...) raises AttributeError when the loaded document is
\* not a mapping (an empty document loads as None)
ConfigRaises(cfg) ==
    cfg = None

\* the defense scorer ends in its except branch
DefenseRaises(company_dict) ==
    IF HasPrecomputed(company_dict, "defense_contract_score")
    THEN PrecomputedRaises(company_dict, "defense_contract_score")
    ELSE TextRaises(company_dict,
                    {"description", "research_summary", "industry"})

\* the technology scorer ends in its except branch
TechnologyRaises(company_dict) ==
    IF HasPrecomputed(company_dict, "technology_relevance_score")
    THEN PrecomputedRaises(company_dict, "technology_relevance_score")
    ELSE TextRaises(company_dict,
                    {"description", "research_summary",
                     "technology_keywords_found", "industry"})

\* the compliance scorer ends in its except branch
ComplianceRaises(company_dict) ==
    IF HasPrecomputed(company_dict, "compliance_indicators_score")
    THEN PrecomputedRaises(company_dict, "compliance_indicators_score")
    ELSE TextRaises(company_dict,
                    {"description", "research_summary",
                     "technology_keywords_found"})

defense_keywords ==
    <<W_defense, W_military, W_aerospace, W_DoD, W_government, W_contractor>>

defense_industries ==
    <<W_defense, W_aerospace, W_military, W_manufacturing, W_engineering>>

_calculate_defense_score(cfg, company_dict) ==
    LET pre == Get(company_dict, "defense_contract_score", None)
        desc == GetText(company_dict, "description")
        summ == GetText(company_dict, "research_summary")
        ind == GetText(company_dict, "industry")
        description == Lower(desc.s \o SP \o summ.s)
        industry == Lower(ind.s)
        found == CountFound(defense_keywords, description)
        score ==
            (IF Truthy(Get(company_dict, "cage_code", None)) THEN 15 ELSE 0)
          + (IF Truthy(Get(company_dict, "duns_number", None)) THEN 10 ELSE 0)
          + (IF Truthy(Get(company_dict, "contract_history", None))
             THEN 20 ELSE 0)
          + (IF found > 0 THEN Min(found * 5, 25) ELSE 0)
          + (IF CountFound(defense_industries, industry) > 0 THEN 30 ELSE 0)
    IN  IF HasPrecomputed(company_dict, "defense_contract_score")
        THEN UsePrecomputed(pre)
        ELSE IF DefenseRaises(company_dict)
        THEN 0
        ELSE Min(100 * CENTI, score * CENTI)

tech_indicators ==
    <<W_software, W_AI, W_IoT, W_cloud, W_cybersecurity, W_automation,
      W_digital>>

_calculate_technology_score(cfg, company_dict) ==
    LET pre == Get(company_dict, "technology_relevance_score", None)
        desc == GetText(company_dict, "description")
        summ == GetText(company_dict, "research_summary")
        tkf == GetText(company_dict, "technology_keywords_found")
        ind == GetText(company_dict, "industry")
        all_text == Lower(desc.s \o SP \o summ.s \o SP \o tkf.s \o SP \o ind.s)
        tech_keywords == Get(cfg, "technology_keywords", EmptyDict)
        category_score(category) ==
            LET category_points == Get(tech_keywords[category], "points", 8)
                keywords == Get(tech_keywords[category], "keywords", <<>>)
                found == CountFoundLower(keywords, all_text)
            IN  IF found > 0
                THEN Min((found * category_points * 10 * CENTI)
                             \div Len(keywords),
                         category_points * CENTI)
                ELSE 0
        found_tech == CountFoundLower(tech_indicators, all_text)
        score ==
            SumFn([c \in DOMAIN tech_keywords |-> category_score(c)])
          + (IF found_tech > 0 THEN Min(found_tech * 5, 20) * CENTI ELSE 0)
    IN  IF HasPrecomputed(company_dict, "technology_relevance_score")
        THEN UsePrecomputed(pre)
        ELSE IF ConfigRaises(cfg) \/ TechnologyRaises(company_dict)
        THEN 0
        ELSE Min(100 * CENTI, score)

cert_indicators ==
    <<W_ISO, W_SOC, W_FedRAMP, W_certified, W_compliant, W_audit,
      W_assessment>>

\* mutant: the certification bonus is capped at 20 like the technology bonus
_calculate_compliance_score_Cap20(cfg, company_dict) ==
    LET pre == Get(company_dict, "compliance_indicators_score", None)
        desc == GetText(company_dict, "description")
        summ == GetText(company_dict, "research_summary")
        tkf == GetText(company_dict, "technology_keywords_found")
        all_text == Lower(desc.s \o SP \o summ.s \o SP \o tkf.s)
        compliance_keywords == Get(cfg, "compliance_keywords", EmptyDict)
        category_score(category) ==
            LET category_points ==
                    Get(compliance_keywords[category], "points", 10)
                keywords == Get(compliance_keywords[category], "terms", <<>>)
                found == CountFoundLower(keywords, all_text)
            IN  IF found > 0
                THEN Min((found * category_points * CENTI) \div 2,
                         category_points * CENTI)
                ELSE 0
        found_certs == CountFoundLower(cert_indicators, all_text)
        score ==
            SumFn([c \in DOMAIN compliance_keywords |-> category_score(c)])
          + (IF found_certs > 0 THEN Min(found_certs * 8, 20) * CENTI ELSE 0)
    IN  IF HasPrecomputed(company_dict, "compliance_indicators_score")
        THEN UsePrecomputed(pre)
        ELSE IF ConfigRaises(cfg) \/ ComplianceRaises(company_dict)
        THEN 0
        ELSE Min(100 * CENTI, score)

_calculate_compliance_score(cfg, company_dict) ==
    LET pre == Get(company_dict, "compliance_indicators_score", None)
        desc == GetText(company_dict, "description")
        summ == GetText(company_dict, "research_summary")
        tkf == GetText(company_dict, "technology_keywords_found")
        all_text == Lower(desc.s \o SP \o summ.s \o SP \o tkf.s)
        compliance_keywords == Get(cfg, "compliance_keywords", EmptyDict)
        category_score(category) ==
            LET category_points ==
                    Get(compliance_keywords[category], "points", 10)
                keywords == Get(compliance_keywords[category], "terms", <<>>)
                found == CountFoundLower(keywords, all_text)
            IN  IF found > 0
                THEN Min((found * category_points * CENTI) \div 2,
                         category_points * CENTI)
                ELSE 0
        found_certs == CountFoundLower(cert_indicators, all_text)
        score ==
            SumFn([c \in DOMAIN compliance_keywords |-> category_score(c)])
          + (IF found_certs > 0 THEN Min(found_certs * 8, 25) * CENTI ELSE 0)
    IN  IF HasPrecomputed(company_dict, "compliance_indicators_score")
        THEN UsePrecomputed(pre)
        ELSE IF ConfigRaises(cfg) \/ ComplianceRaises(company_dict)
        THEN 0
        ELSE Min(100 * CENTI, score)

\* first range whose [min, max] contains v: its points; a range entry
\* lacking a key raises KeyError when that key is read
RECURSIVE RangePoints(_, _, _)
RangePoints(ranges, v, i) ==
    IF i > Len(ranges) THEN [raised |-> FALSE, points |-> 0]
    ELSE LET r == ranges[i]
         IN  IF "min" \notin DOMAIN r THEN [raised |-> TRUE, points |-> 0]
             ELSE IF ~(r.min <= v) THEN RangePoints(ranges, v, i + 1)
             ELSE IF "max" \notin DOMAIN r
             THEN [raised |-> TRUE, points |-> 0]
             ELSE IF ~(v <= r.max) THEN RangePoints(ranges, v, i + 1)
             ELSE IF "points" \notin DOMAIN r
             THEN [raised |-> TRUE, points |-> 0]
             ELSE [raised |-> FALSE, points |-> r.points]

\* scoring of one numeric field against its configured ranges
RangeField(cfg, company_dict, field, section) ==
    LET v == Get(company_dict, field, None)
        ranges == Get(Get(Get(cfg, "firmographics", EmptyDict),
                          section, EmptyDict), "ranges", <<>>)
    IN  IF ~Truthy(v) THEN [raised |-> FALSE, points |-> 0]
        ELSE IF v.tag = "str"
        THEN [raised |-> Len(ranges) > 0, points |-> 0]
        ELSE RangePoints(ranges, v.n, 1)

industry_mappings ==
    <<[key |-> W_aircraft, points |-> 15], [key |-> W_aerospace, points |-> 15],
      [key |-> W_defense, points |-> 12], [key |-> W_engineering, points |-> 12],
      [key |-> W_manufacturing, points |-> 10],
      [key |-> W_technology, points |-> 8], [key |-> W_software, points |-> 8]>>

us_countries ==
    {W_united_states, W_usa, W_us}

\* the firmographics scorer ends in its except branch
FirmographicsRaises(cfg, company_dict) ==
    \/ ConfigRaises(cfg)
    \/ RangeField(cfg, company_dict, "employee_count",
                  "employee_count").raised
    \/ RangeField(cfg, company_dict, "annual_revenue", "revenue").raised
    \/ TextRaises(company_dict, {"industry", "country"})

_calculate_firmographics_score(cfg, company_dict) ==
    LET emp == RangeField(cfg, company_dict, "employee_count",
                          "employee_count")
        rev == RangeField(cfg, company_dict, "annual_revenue", "revenue")
        ind == GetText(company_dict, "industry")
        ctry == GetText(company_dict, "country")
        industry == Lower(ind.s)
        hits == {i \in 1..Len(industry_mappings) :
                    Contains(industry_mappings[i].key, industry)}
        ind_points ==
            IF hits = {} THEN 0
            ELSE industry_mappings[CHOOSE i \in hits :
                                      \A j \in hits : i <= j].points
        score ==
            emp.points + rev.points + ind_points
          + (IF Lower(ctry.s) \in us_countries THEN 5 ELSE 0)
    IN  IF FirmographicsRaises(cfg, company_dict)
        THEN 0
        ELSE Min(100 * CENTI, score * CENTI)

---------------------------------------------------------------------------
(* Keyword matcher *)

\* algorithm_parameters.keyword_matching.fuzzy_matching, True when absent
FuzzyEnabled(cfg) ==
    Get(Get(Get(cfg, "algorithm_parameters", EmptyDict),
            "keyword_matching", EmptyDict), "fuzzy_matching", TRUE)

\* mutant: more than 80% of the parts are required
_keyword_matches_Above80(cfg, keyword, text) ==
    \/ Contains(Lower(keyword), Lower(text))
    \/ /\ FuzzyEnabled(cfg)
       /\ IF Len(Split(Lower(keyword))) > 1
          THEN Cardinality({i \in 1..Len(Split(Lower(keyword))) :
                               Contains(Split(Lower(keyword))[i],
                                        Lower(text))}) * 10
                 > Len(Split(Lower(keyword))) * 8
          ELSE Contains(Take(Split(Lower(keyword))[1], 4), Lower(text))

\* terms are non-blank, so keyword.lower().split() is never empty
_keyword_matches(cfg, keyword, text) ==
    LET kw == Lower(keyword)
        txt == Lower(text)
        keyword_parts == Split(kw)
        matches == Cardinality({i \in 1..Len(keyword_parts) :
                                   Contains(keyword_parts[i], txt)})
    IN  IF Contains(kw, txt) THEN TRUE
        ELSE IF FuzzyEnabled(cfg)
        THEN IF Len(keyword_parts) > 1
             THEN matches * 10 >= Len(keyword_parts) * 8
             ELSE Contains(Take(keyword_parts[1], 4), txt)
        ELSE FALSE

\* the fields concatenated into all_text, in order
MatcherFields ==
    <<"description", "research_summary", "technology_keywords_found",
      "industry", "name">>

\* str + " " + ... raises TypeError unless every operand is a str
ExtractRaises(company_dict) ==
    \E i \in 1..Len(MatcherFields) :
        GetText(company_dict, MatcherFields[i]).tag # "str"

\* the fields' texts joined by single spaces, in the order given
RECURSIVE JoinFields(_, _, _)
JoinFields(company_dict, fields, i) ==
    IF i > Len(fields) THEN <<>>
    ELSE GetText(company_dict, fields[i]).s
         \o (IF i < Len(fields) THEN SP ELSE <<>>)
         \o JoinFields(company_dict, fields, i + 1)

MatcherText(company_dict) ==
    Lower(JoinFields(company_dict, MatcherFields, 1))

FoundTerms(cfg, terms, all_text) ==
    SelectSeq(terms, LAMBDA term : _keyword_matches(cfg, term, all_text))

KeywordGroups ==
    {"compliance_keywords", "technology_keywords"}

\* the primary categories that carry a "terms" list
PrimaryCategories(cfg) ==
    {c \in DOMAIN Get(cfg, "keywords", EmptyDict) :
        "terms" \in DOMAIN cfg.keywords[c]}

\* keyword_matches: key <<"keywords", c>> stands for the primary category
\* c, key <<group, sub>> for the key f"{group}_{sub}"
KeywordMatchesIn(cfg, all_text) ==
    LET group(g) == Get(cfg, g, EmptyDict)
        subs(g) == {s \in DOMAIN group(g) :
                       \/ "terms" \in DOMAIN group(g)[s]
                       \/ "keywords" \in DOMAIN group(g)[s]}
        terms(k) ==
            IF k[1] = "keywords" THEN cfg.keywords[k[2]].terms
            ELSE Get(group(k[1])[k[2]], "terms",
                     Get(group(k[1])[k[2]], "keywords", <<>>))
        keys == {<<"keywords", c>> : c \in PrimaryCategories(cfg)}
                \cup UNION {{<<g, s>> : s \in subs(g)} : g \in KeywordGroups}
        found(k) == FoundTerms(cfg, terms(k), all_text)
    IN  [k \in {x \in keys : found(x) # <<>>} |-> found(k)]

_extract_all_keyword_matches(cfg, company_dict) ==
    KeywordMatchesIn(cfg, MatcherText(company_dict))

\* the increments the matcher makes to self.stats["keyword_usage"]: one per
\* matched term of each primary category
KeywordUsageIncrements(cfg, company_dict) ==
    LET all_text == MatcherText(company_dict)
        hits == UNION {{<<c, i>> : i \in
                          {j \in 1..Len(cfg.keywords[c].terms) :
                              _keyword_matches(cfg, cfg.keywords[c].terms[j],
                                               all_text)}} :
                       c \in PrimaryCategories(cfg)}
        term(h) == cfg.keywords[h[1]].terms[h[2]]
    IN  [t \in {term(h) : h \in hits} |->
            Cardinality({h \in hits : term(h) = t})]

\* keyword_usage after those increments
AddKeywordUsage(usage, increments) ==
    [t \in DOMAIN usage \cup DOMAIN increments |->
        Get(usage, t, 0) + Get(increments, t, 0)]

---------------------------------------------------------------------------
(* Tier classification *)

RECURSIVE ClassifyFrom(_, _, _)
ClassifyFrom(tier_config, total_score, i) ==
    IF i > Len(tier_config) THEN "excluded"
    ELSE LET min_score == Get(tier_config[i], "min_score", 0)
             max_score == Get(tier_config[i], "max_score", 100)
         IN  IF /\ min_score * MICRO <= total_score
                /\ total_score <= max_score * MICRO
             THEN tier_config[i].tier
             ELSE ClassifyFrom(tier_config, total_score, i + 1)

\* mutant: the loop does not return at the first match, the last one wins
_classify_tier_LastWins(cfg, total_score) ==
    IF \A i \in 1..Len(cfg.tier_classification) :
           ~(/\ cfg.tier_classification[i].min_score * MICRO <= total_score
             /\ total_score <= cfg.tier_classification[i].max_score * MICRO)
    THEN "excluded"
    ELSE cfg.tier_classification[
             CHOOSE i \in 1..Len(cfg.tier_classification) :
                 /\ cfg.tier_classification[i].min_score * MICRO
                       <= total_score
                 /\ total_score
                       <= cfg.tier_classification[i].max_score * MICRO
                 /\ \A j \in (i + 1)..Len(cfg.tier_classification) :
                       ~(/\ cfg.tier_classification[j].min_score * MICRO
                              <= total_score
                         /\ total_score
                              <= cfg.tier_classification[j].max_score
                                   * MICRO)].tier

\* total_score in millionths of a point
_classify_tier(cfg, total_score) ==
    ClassifyFrom(Get(cfg, "tier_classification", <<>>), total_score, 1)

---------------------------------------------------------------------------
(* Validation *)

NoField ==
    "<None>"

\* mutant: a field set to None counts as present
validate_required_fields_KeyOnly(data, required_fields) ==
    LET missing_fields ==
            SelectSeq(required_fields, LAMBDA f : f \notin DOMAIN data)
    IN  IF missing_fields # <<>>
        THEN [type |-> "DataValidationError",
              field_name |-> IF Len(missing_fields) = 1
                             THEN missing_fields[1] ELSE NoField]
        ELSE [type |-> "ok", field_name |-> NoField]

\* the DataValidationError raised, or "ok"
validate_required_fields(data, required_fields) ==
    LET missing_fields ==
            SelectSeq(required_fields,
                      LAMBDA f : f \notin DOMAIN data \/ data[f].tag = "none")
    IN  IF missing_fields # <<>>
        THEN [type |-> "DataValidationError",
              field_name |-> IF Len(missing_fields) = 1
                             THEN missing_fields[1] ELSE NoField]
        ELSE [type |-> "ok", field_name |-> NoField]

---------------------------------------------------------------------------
(* Statistics accumulator *)

TierKeys ==
    {"tier_1", "tier_2", "tier_3", "tier_4", "excluded"}

AverageKeys ==
    {"total", "defense", "technology", "compliance", "firmographics"}

\* self.stats after __init__; averages in tenths of a point
InitStats ==
    [companies_scored |-> 0,
     tier_distribution |-> [t \in TierKeys |-> 0],
     average_scores |-> [k \in AverageKeys |-> 0],
     keyword_usage |-> [t \in {} |-> 0]]

\* round(num / den, 1) for num in tenths: nearest tenth, ties to even
RoundDiv(num, den) ==
    LET base == num \div den
        r == num % den
    IN  IF 2 * r < den THEN base
        ELSE IF 2 * r > den THEN base + 1
        ELSE IF base % 2 = 0 THEN base ELSE base + 1

_update_scoring_stats(st, result) ==
    LET total_companies == st.companies_scored + 1
        tier == result.tier_classification
        component_scores == result.component_scores
        new_avg(component) ==
            RoundDiv(st.average_scores[component] * (total_companies - 1)
                         + component_scores[component],
                     total_companies)
    IN  [companies_scored |-> total_companies,
         tier_distribution |->
            [t \in DOMAIN st.tier_distribution |->
                IF t = tier THEN st.tier_distribution[t] + 1
                ELSE st.tier_distribution[t]],
         average_scores |->
            [k \in DOMAIN st.average_scores |->
                IF k \in DOMAIN component_scores THEN new_avg(k)
                ELSE st.average_scores[k]],
         keyword_usage |-> st.keyword_usage]

---------------------------------------------------------------------------
(* score_company *)

NoLocals ==
    [stage |-> "none", defense_score |-> 0, technology_score |-> 0,
     compliance_score |-> 0, firmographics_score |-> 0, total_score |-> 0]

\* mutant: the lower clamp is missing
ClampTotal_NoLowerBound(total_score) ==
    Min(100 * MICRO, total_score)

\* max(0, min(100, total_score)), in millionths
ClampTotal(total_score) ==
    Max(0, Min(100 * MICRO, total_score))

\* mutant: the bonus needs more than five matched terms
BonusApplies_AboveFive(total_keywords) ==
    total_keywords > 5

\* line 184: total_keywords >= 5
BonusApplies(total_keywords) ==
    total_keywords >= 5

\* lines 189-222: tier, rounding and the ScoringResult, from the clamped
\* total (in millionths) and the scorers' values (in hundredths)
BuildResult(cfg, company_dict, scores, keyword_matches, total_keywords, total_score) ==
    [company_name |-> Get(company_dict, "name", Str(W_Unknown_Company)),
     total_score |-> Round1(total_score, MICRO),
     tier_classification |-> _classify_tier(cfg, total_score),
     component_scores |->
        [defense_contract_score |-> Round1(scores.defense_score, CENTI),
         technology_relevance_score |->
            Round1(scores.technology_score, CENTI),
         compliance_indicators_score |->
            Round1(scores.compliance_score, CENTI),
         firmographics_score |-> Round1(scores.firmographics_score, CENTI),
         total_score |-> Round1(total_score, MICRO)],
     keyword_matches |-> keyword_matches,
     metadata |-> [bonus_applied |-> total_keywords >= 5,
                   total_keywords_found |-> total_keywords]]

\* lines 165-190: the weighted total (in 1/10^4 points), the keyword bonus
\* and the clamp; returns the total in millionths
TotalScore(cfg, scores, total_keywords) ==
    LET weights == Get(cfg, "scoring_weights", EmptyDict)
        defense_weight == Get(weights, "defense_contract_score", 35)
        tech_weight == Get(weights, "technology_relevance", 30)
        compliance_weight == Get(weights, "compliance_indicators", 25)
        firmographics_weight == Get(weights, "firmographics", 10)
        weighted == scores.defense_score * defense_weight
                  + scores.technology_score * tech_weight
                  + scores.compliance_score * compliance_weight
                  + scores.firmographics_score * firmographics_weight
        bonus_multiplier ==
            Get(Get(cfg, "algorithm_parameters", EmptyDict),
                "bonus_multiplier", 120)
    IN  ClampTotal(IF BonusApplies(total_keywords)
                   THEN Min(weighted * bonus_multiplier, 100 * MICRO)
                   ELSE weighted * CENTI)

\* len of all match lists
TotalKeywords(keyword_matches) ==
    SumFn([k \in DOMAIN keyword_matches |-> Len(keyword_matches[k])])

\* the scorers have run; the matcher raises or the call returns a result
Aggregate(cfg, company_dict, scores, total_score, keyword_matches) ==
    [outcome |->
        [kind |-> "result",
         result |-> BuildResult(cfg, company_dict, scores, keyword_matches,
                                TotalKeywords(keyword_matches), total_score)],
     locals |-> [scores EXCEPT !.stage = "done",
                               !.total_score = total_score],
     usage |-> KeywordUsageIncrements(cfg, company_dict)]

ComponentScores(cfg, company_dict) ==
    [stage |-> "scored",
     defense_score |-> _calculate_defense_score(cfg, company_dict),
     technology_score |-> _calculate_technology_score(cfg, company_dict),
     compliance_score |-> _calculate_compliance_score(cfg, company_dict),
     firmographics_score |->
        _calculate_firmographics_score(cfg, company_dict),
     total_score |-> 0]

Raised(exc, scores) ==
    [outcome |-> [kind |-> "raised", exc |-> exc],
     locals |-> scores, usage |-> InitStats.keyword_usage]

AfterScorers(cfg, company_dict, scores, keyword_matches) ==
    Aggregate(cfg, company_dict, scores,
              TotalScore(cfg, scores, TotalKeywords(keyword_matches)),
              keyword_matches)

\* mutant: the scorers have no try/except of their own
Propagates_ScorersToo(cfg, company_dict) ==
    \/ ExtractRaises(company_dict)
    \/ DefenseRaises(company_dict)
    \/ TechnologyRaises(company_dict)
    \/ ComplianceRaises(company_dict)
    \/ FirmographicsRaises(cfg, company_dict)

\* an exception reaches score_company's except clause after validation:
\* each scorer catches its own, the matcher's is not caught
Propagates(cfg, company_dict) ==
    ExtractRaises(company_dict)

AfterValidation(cfg, company_dict, check) ==
    IF check.type # "ok" THEN Raised(check, NoLocals)
    ELSE IF ConfigRaises(cfg)
    THEN Raised([type |-> "AttributeError", field_name |-> NoField],
                ComponentScores(cfg, company_dict))
    ELSE IF Propagates(cfg, company_dict)
    THEN Raised([type |-> "TypeError", field_name |-> NoField],
                ComponentScores(cfg, company_dict))
    ELSE AfterScorers(cfg, company_dict, ComponentScores(cfg, company_dict),
                      _extract_all_keyword_matches(cfg, company_dict))

\* score_company on the merged dict
ScoreDict(cfg, company_dict) ==
    AfterValidation(cfg, company_dict,
                    validate_required_fields(company_dict, <<"name">>))

\* What one score_company call computes from the configuration and the
\* record alone: the result or the exception raised, the unrounded local
\* scores, and the keyword_usage increments its matcher run makes.
ScoreOutcome(cfg, cd, additional_data) ==
    ScoreDict(cfg, additional_data @@ asdict(cd))

\* self.stats after a call that computed `computed`: the matcher's
\* increments, then _update_scoring_stats(result); untouched on a raise
StatsAfter(st, computed) ==
    IF computed.outcome.kind = "result"
    THEN _update_scoring_stats(
             [st EXCEPT !.keyword_usage =
                            AddKeywordUsage(st.keyword_usage,
                                            computed.usage)],
             computed.outcome.result)
    ELSE st

WithStats(st, computed) ==
    [outcome |-> computed.outcome, locals |-> computed.locals,
     stats |-> StatsAfter(st, computed)]

\* mutant: the caller's dict is updated in place instead of a copy
InputsAfter_UpdateInPlace(cd, additional_data) ==
    [company_data |-> IF cd.kind = "dict"
                      THEN [cd EXCEPT !.fields = additional_data @@ cd.fields]
                      ELSE cd,
     additional_data |-> additional_data]

\* lines 142-149: the caller's record and additional_data after the call;
\* the merge is made on a copy (asdict or dict.copy), additional_data is
\* only read
InputsAfter(cd, additional_data) ==
    [company_data |-> cd, additional_data |-> additional_data]

\* the matches of a result without the terms counted in keyword_usage
Uncounted(st, keyword_matches) ==
    [k \in {x \in DOMAIN keyword_matches :
               \E j \in 1..Len(keyword_matches[x]) :
                   keyword_matches[x][j] \notin DOMAIN st.keyword_usage} |->
        SelectSeq(keyword_matches[k],
                  LAMBDA t : t \notin DOMAIN st.keyword_usage)]

ForgetCounted(st, computed) ==
    IF computed.outcome.kind = "result"
    THEN [computed EXCEPT !.outcome.result.keyword_matches =
                              Uncounted(st, @)]
    ELSE computed

\* mutant: the matcher skips the terms keyword_usage already counts
score_company_SkipsCounted(cfg, st, cd, additional_data) ==
    WithStats(st, ForgetCounted(st, ScoreOutcome(cfg, cd, additional_data)))

\* Returns [outcome, stats, locals]
score_company(cfg, st, cd, additional_data) ==
    WithStats(st, ScoreOutcome(cfg, cd, additional_data))

---------------------------------------------------------------------------
(* batch_score_companies *)

\* the name appended to failed_companies in the except branch
FailedName(cd) ==
    Get(cd.fields, "name", Str(W_Unknown))

\* self.stats after the calls that computed outs[i..], in order
RECURSIVE StatsAfterAll(_, _, _)
StatsAfterAll(st, outs, i) ==
    IF i > Len(outs) THEN st
    ELSE StatsAfterAll(StatsAfter(st, outs[i]), outs, i + 1)

\* the indices in S, ascending
Ascending(S, n) ==
    SelectSeq([i \in 1..n |-> i], LAMBDA i : i \in S)

BatchResults(outs, idx) ==
    SubSeq([j \in 1..Len(idx) |-> outs[idx[j]].outcome.result],
           1, Len(idx))

BatchFailed(companies, idx) ==
    SubSeq([j \in 1..Len(idx) |-> FailedName(companies[idx[j]])],
           1, Len(idx))

BatchCollect(st, companies, outs, ok) ==
    [outcomes |-> SubSeq([i \in 1..Len(outs) |-> outs[i].outcome],
                         1, Len(outs)),
     results |-> BatchResults(outs, Ascending(ok, Len(outs))),
     failed_companies |->
        BatchFailed(companies,
                    Ascending((1..Len(outs)) \ ok, Len(outs))),
     stats |-> StatsAfterAll(st, outs, 1)]

BatchOutcomes(st, companies, outs) ==
    BatchCollect(st, companies, outs,
                 {i \in 1..Len(outs) : outs[i].outcome.kind = "result"})

\* how many records are scored before the first one that raises
BeforeFirstFailure(outcomes) ==
    Cardinality({i \in 1..Len(outcomes) :
                    \A j \in 1..i : outcomes[j].kind = "result"})

KeepBeforeFailure(r) ==
    [r EXCEPT !.results = SubSeq(@, 1, BeforeFirstFailure(r.outcomes))]

\* mutant: the results of the records after a failed one are dropped
batch_score_companies_StopsAtFailure(cfg, st, companies) ==
    KeepBeforeFailure(
        BatchOutcomes(st, companies,
                      SubSeq([i \in 1..Len(companies) |->
                                 ScoreOutcome(cfg, companies[i], EmptyDict)],
                             1, Len(companies))))

\* the loop calls score_company on each record in turn; a raise appends
\* the record's name to failed_companies and the loop continues
batch_score_companies(cfg, st, companies) ==
    BatchOutcomes(st, companies,
                  SubSeq([i \in 1..Len(companies) |->
                             ScoreOutcome(cfg, companies[i], EmptyDict)],
                         1, Len(companies)))

---------------------------------------------------------------------------
(* Inputs: configurations and company records *)

MaxCalls ==
    2

MaxBatch ==
    2

Absent ==
    [tag |-> "absent", s |-> <<>>, n |-> 0]

\* the dict holding key, unless the value is left out
Field(key, v) ==
    IF v.tag = "absent" THEN EmptyDict ELSE key :> v

\* a configuration file naming every section, with fuzzy matching off
CustomConfig ==
    [technology_keywords |->
        [cloud_ai |-> [points |-> 8,
                       keywords |-> <<W_cloud, W_machine_learning>>]],
     compliance_keywords |->
        [nist |-> [points |-> 10, terms |-> <<W_NIST, W_CMMC>>]],
     firmographics |->
        [employee_count |->
            [ranges |-> <<[min |-> 50, max |-> 500, points |-> 10],
                          [min |-> 0, max |-> 49, points |-> 5]>>],
         revenue |->
            [ranges |-> <<[min |-> 0, max |-> 10000000, points |-> 10]>>]],
     tier_classification |->
        <<[tier |-> "tier_1", min_score |-> 90, max_score |-> 100],
          [tier |-> "tier_2", min_score |-> 75, max_score |-> 90],
          [tier |-> "tier_3", min_score |-> 60, max_score |-> 75],
          [tier |-> "tier_4", min_score |-> 45, max_score |-> 60],
          [tier |-> "excluded", min_score |-> 0, max_score |-> 45]>>,
     algorithm_parameters |->
        [bonus_multiplier |-> 120,
         keyword_matching |-> [fuzzy_matching |-> FALSE]]]
    @@ _get_default_config

\* a configuration with negative and oversized weights and point values
AdversarialConfig ==
    [scoring_weights |->
        [defense_contract_score |-> -50, technology_relevance |-> 100,
         compliance_indicators |-> 100, firmographics |-> 100],
     technology_keywords |->
        [cloud_ai |-> [points |-> -8,
                       keywords |-> <<W_cloud, W_machine_learning>>]],
     compliance_keywords |->
        [nist |-> [points |-> 300, terms |-> <<W_NIST, W_CMMC>>]],
     firmographics |->
        [employee_count |->
            [ranges |-> <<[min |-> 0, max |-> 500, points |-> -10]>>],
         revenue |->
            [ranges |-> <<[min |-> 0, max |-> 10000000, points |-> 500]>>]],
     algorithm_parameters |-> [bonus_multiplier |-> 150]]
    @@ _get_default_config

\* a configuration whose employee range entry lacks its "max" key
MalformedConfig ==
    [firmographics |->
        [employee_count |->
            [ranges |-> <<[min |-> 0, points |-> 10]>>],
         revenue |->
            [ranges |-> <<[min |-> 0, max |-> 10000000, points |-> 10]>>]]]
    @@ _get_default_config

\* a configuration file that names its own tiers
NamedTiersConfig ==
    [tier_classification |->
        <<[tier |-> "strategic", min_score |-> 60, max_score |-> 100],
          [tier |-> "watchlist", min_score |-> 0, max_score |-> 60]>>]
    @@ _get_default_config

EngineConfigs ==
    {_get_default_config, CustomConfig, NamedTiersConfig}

ScoreConfigs ==
    {_get_default_config, CustomConfig, AdversarialConfig, MalformedConfig}

\* records for the engine runs
EngineRecords ==
    {Dict([name |-> Str(T_acme_aerospace), description |-> Str(T_kw5),
           industry |-> Str(T_defense_manufacturing),
           cage_code |-> Str(T_cage), country |-> Str(T_usa),
           employee_count |-> Num(250)]),
     Dict([name |-> Str(T_acme), defense_contract_score |-> Num(4200),
           technology_relevance_score |-> Num(9990),
           compliance_indicators_score |-> Num(10000)]),
     Dict([description |-> Str(T_kw4)]),
     Dict([name |-> None, description |-> Str(T_kw4)]),
     Dict([name |-> Str(<<>>), description |-> Str(T_kw4)]),
     CompanyData([name |-> Str(T_acme)]),
     CompanyData([name |-> None, description |-> Str(T_kw4)])}

\* the additional_data arguments tried with each record
AdditionalDataFor(cd) ==
    IF cd.kind = "dict" /\ "cage_code" \in DOMAIN cd.fields
    THEN {EmptyDict, [research_summary |-> Str(T_cert)]}
    ELSE {EmptyDict}

\* records for single calls: validation and missing-field cases, ...
ValidationRecords ==
    {Dict(Field("name", nm) @@ Field("description", de)
          @@ Field("industry", ind)) :
        nm \in {Absent, None, Str(<<>>), Str(T_acme)},
        de \in {Absent, None, Str(T_kw5)},
        ind \in {Absent, Str(T_defense_manufacturing)}}
    \cup
    {CompanyData(Field("name", nm) @@ Field("description", de)
                 @@ Field("industry", ind)) :
        nm \in {None, Str(<<>>), Str(T_acme)},
        de \in {Absent, Str(T_kw5)},
        ind \in {Absent, Str(T_defense_manufacturing)}}

\* ... precomputed component scores, ...
PrecomputedRecords ==
    {Dict([name |-> Str(T_acme)]
          @@ Field("defense_contract_score", d)
          @@ Field("technology_relevance_score", t)
          @@ Field("compliance_indicators_score", c)
          @@ Field("cage_code", cage) @@ Field("description", de)) :
        d \in {Absent, None, Num(0), Num(4200), Num(4225), Num(-500),
               Num(25000), Num(10000), Str(T_abc)},
        t \in {Absent, Num(9990), Num(10000)},
        c \in {Absent, Num(10000)},
        cage \in {Absent, Str(T_cage)},
        de \in {Absent, Str(T_gov)}}

\* ... and firmographic fields
FirmographicRecords ==
    {Dict([name |-> Str(T_acme)]
          @@ Field("employee_count", e) @@ Field("annual_revenue", r)
          @@ Field("industry", ind) @@ Field("country", ctry)
          @@ Field("description", de)) :
        e \in {Absent, Num(0), Num(250), Num(-1), Str(T_abc)},
        r \in {Absent, Num(5000000)},
        ind \in {Absent, Str(T_acme_aerospace), Str(T_software)},
        ctry \in {Absent, None, Str(T_usa), Str(T_canada)},
        de \in {Absent, Str(T_cert), Str(T_kw5), Str(T_kw4),
                Str(T_kw3_groups)}}

\* the free-text fields the matcher is specified to search
FreeTextFields ==
    {"description", "research_summary", "contract_history",
     "technology_keywords_found", "industry", "name"}

\* ... and records that mention a keyword in a single free-text field
SingleFieldRecords ==
    {Dict(Field(f, Str(T_Hypersonic_Labs)) @@ [name |-> Str(T_acme)]) :
        f \in FreeTextFields}

\* ... and records whose adjacent fields end and begin with the two words
\* of a configured term
StraddleRecords ==
    {Dict([name |-> Str(T_acme), description |-> Str(W_defense),
           research_summary |-> Str(W_manufacturing)]),
     Dict([name |-> Str(T_acme), description |-> Str(W_manufacturing),
           research_summary |-> Str(W_defense)])}

\* ... and records whose description names several of the fixed technology
\* or certification indicators
IndicatorRecords ==
    {Dict([name |-> Str(T_acme), description |-> Str(t)]) :
        t \in {T_ai_iot, T_tech5, T_iso_audit}}

ScoreRecords ==
    ValidationRecords \cup PrecomputedRecords \cup FirmographicRecords
    \cup SingleFieldRecords \cup StraddleRecords \cup IndicatorRecords

\* the lists handed to batch_score_companies
RECURSIVE SeqsUpTo(_, _)
SeqsUpTo(S, n) ==
    IF n = 0 THEN {<<>>}
    ELSE SeqsUpTo(S, n - 1)
         \cup {Append(s, x) : s \in SeqsUpTo(S, n - 1), x \in S}

---------------------------------------------------------------------------
(* The engine as a state machine *)

NoData ==
    [kind |-> "none", fields |-> EmptyDict]

NoOutcome ==
    [kind |-> "none"]

NoBatch ==
    [called |-> FALSE, companies |-> <<>>, results |-> <<>>,
     failed_companies |-> <<>>]

\* AtomustamScoringEngine.__init__ with the configuration cfg loaded
EngineInit(cfg, cd, total) ==
    /\ config = cfg
    /\ stats = InitStats
    /\ company_data = cd
    /\ outcome = NoOutcome
    /\ locals = NoLocals
    /\ calls = 0
    /\ returned = <<>>
    /\ batch = NoBatch
    /\ tier_in = total
    /\ tier_out = "unset"
    /\ history = <<>>

NoThreads ==
    <<>>

NoFiles ==
    <<>>

NoPath ==
    "<None>"

NoMatcher ==
    [called |-> FALSE, keyword |-> <<>>, text |-> <<>>, result |-> FALSE]

NoRetry ==
    [pc |-> "none"]

\* no concurrent callers, and the constructor has already run
Constructed ==
    /\ threads = NoThreads
    /\ fs = NoFiles
    /\ config_path = NoPath
    /\ matcher = NoMatcher
    /\ retry = NoRetry

Init ==
    /\ \E cfg \in EngineConfigs : EngineInit(cfg, NoData, 0)
    /\ Constructed

\* the history entry of one score_company call
HistoryEntry(cd, additional_data, out) ==
    [company_data |-> cd, additional_data |-> additional_data,
     after |-> InputsAfter(cd, additional_data), outcome |-> out]

\* one call engine.score_company(cd, additional_data)
ScoreCompany(cd, additional_data) ==
    /\ calls < MaxCalls
    /\ \E r \in {score_company(config, stats, cd, additional_data)} :
          /\ company_data' = cd
          /\ outcome' = r.outcome
          /\ stats' = r.stats
          /\ locals' = r.locals
          /\ calls' = calls + 1
          /\ returned' = IF r.outcome.kind = "result"
                         THEN Append(returned, r.outcome.result)
                         ELSE returned
          /\ history' = Append(history,
                               HistoryEntry(cd, additional_data, r.outcome))
    /\ UNCHANGED <<config, batch, tier_in, tier_out, threads, fs,
                   config_path,
                   matcher, retry>>

\* one call engine.batch_score_companies(companies)
BatchScore(companies) ==
    /\ ~batch.called
    /\ calls + Len(companies) <= MaxCalls
    /\ \E r \in {batch_score_companies(config, stats, companies)} :
          /\ batch' = [called |-> TRUE, companies |-> companies,
                       results |-> r.results,
                       failed_companies |-> r.failed_companies]
          /\ stats' = r.stats
          /\ calls' = calls + Len(companies)
          /\ returned' = returned \o r.results
          /\ history' = history
                        \o SubSeq([i \in 1..Len(companies) |->
                                      HistoryEntry(companies[i], EmptyDict,
                                                   r.outcomes[i])],
                                  1, Len(companies))
    /\ UNCHANGED <<config, company_data, outcome, locals, tier_in, tier_out,
                   threads, fs, config_path,
                   matcher, retry>>

Next ==
    \/ \E cd \in EngineRecords :
          \E additional_data \in AdditionalDataFor(cd) :
              ScoreCompany(cd, additional_data)
    \/ \E companies \in SeqsUpTo(EngineRecords, MaxBatch) :
          BatchScore(companies)

Spec ==
    Init /\ [][Next]_vars

---------------------------------------------------------------------------
(* A single score_company call on a record drawn from ScoreRecords *)

InitScore ==
    /\ \E cfg \in ScoreConfigs : \E cd \in ScoreRecords :
          EngineInit(cfg, cd, 0)
    /\ Constructed

ScoreGiven ==
    /\ calls = 0
    /\ ScoreCompany(company_data, EmptyDict)

NextScore ==
    ScoreGiven

SpecScore ==
    InitScore /\ [][NextScore]_vars

---------------------------------------------------------------------------
(* A single _classify_tier call on a total score in [0, 100] *)

\* total scores in steps of a hundredth of a point, in millionths
TierScores ==
    {t * (MICRO \div CENTI) : t \in 0..(100 * CENTI)}

InitTier ==
    /\ \E cfg \in EngineConfigs : \E total \in TierScores :
          EngineInit(cfg, NoData, total)
    /\ Constructed

ClassifyTier ==
    /\ tier_out = "unset"
    /\ tier_out' = _classify_tier(config, tier_in)
    /\ UNCHANGED <<config, stats, company_data, outcome, locals, calls,
                   returned, batch, tier_in, history, threads, fs,
                   config_path,
                   matcher, retry>>

NextTier ==
    ClassifyTier

SpecTier ==
    InitTier /\ [][NextTier]_vars

---------------------------------------------------------------------------
(* Concurrent score_company calls on one engine.  The code takes no lock:
   each `self.stats[...] += 1` is a read followed by a write, and another
   caller may run between the two. *)

NumThreads ==
    2

Threads ==
    1..NumThreads

\* records scored by the concurrent callers
ThreadRecords ==
    {Dict([name |-> Str(T_acme), description |-> Str(W_nuclear)]),
     Dict([name |-> Str(T_acme_aerospace), description |-> Str(T_kw4)]),
     Dict([description |-> Str(T_kw4)])}

IdleThread ==
    [pc |-> "idle", company_data |-> NoData, todo |-> <<>>, reg |-> 0]

\* the categories of config["keywords"], in the order the loop visits them
CategorySeq(cfg) ==
    SelectSeq(<<"primary", "secondary", "specialized">>,
              LAMBDA c : c \in PrimaryCategories(cfg))

\* the terms whose keyword_usage entry the matcher increments, in order
RECURSIVE UsageSequence(_, _, _)
UsageSequence(cfg, all_text, i) ==
    IF i > Len(CategorySeq(cfg)) THEN <<>>
    ELSE FoundTerms(cfg, cfg.keywords[CategorySeq(cfg)[i]].terms, all_text)
         \o UsageSequence(cfg, all_text, i + 1)

\* what the call of thread t computes from its record and the configuration
ThreadOutcome(t) ==
    ScoreOutcome(config, threads[t].company_data, EmptyDict)

InitConc ==
    /\ \E cfg \in EngineConfigs : EngineInit(cfg, NoData, 0)
    /\ threads = [t \in Threads |-> IdleThread]
    /\ fs = NoFiles
    /\ config_path = NoPath
    /\ matcher = NoMatcher
    /\ retry = NoRetry

\* lines 140-181: thread t calls score_company(cd); validation, the
\* scorers and the matcher's text read only the record and the configuration
ThreadCall(t, cd) ==
    /\ threads[t].pc = "idle"
    /\ \E out \in {ScoreOutcome(config, cd, EmptyDict)} :
        \E todo \in {IF out.outcome.kind = "result"
                      THEN UsageSequence(config, MatcherText(cd.fields), 1)
                      ELSE <<>>} :
          threads' = [threads EXCEPT ![t] =
                        [pc |-> IF out.outcome.kind = "raised" THEN "raised"
                                ELSE IF todo = <<>> THEN "count_load"
                                ELSE "usage_load",
                         company_data |-> cd, todo |-> todo, reg |-> 0]]
    /\ UNCHANGED <<config, stats, company_data, outcome, locals, calls,
                   returned, batch, tier_in, tier_out, history, fs,
                   config_path,
                   matcher, retry>>

\* lines 535-537: read of self.stats["keyword_usage"][term], 0 when new
ThreadUsageLoad(t) ==
    /\ threads[t].pc = "usage_load"
    /\ threads' = [threads EXCEPT
                      ![t].reg = Get(stats.keyword_usage,
                                     Head(threads[t].todo), 0),
                      ![t].pc = "usage_store"]
    /\ UNCHANGED <<config, stats, company_data, outcome, locals, calls,
                   returned, batch, tier_in, tier_out, history, fs,
                   config_path,
                   matcher, retry>>

\* line 537: write of self.stats["keyword_usage"][term]
ThreadUsageStore(t) ==
    /\ threads[t].pc = "usage_store"
    /\ stats' = [stats EXCEPT !.keyword_usage =
                     (Head(threads[t].todo) :> threads[t].reg + 1)
                     @@ stats.keyword_usage]
    /\ threads' = [threads EXCEPT
                      ![t].todo = Tail(threads[t].todo),
                      ![t].pc = IF Tail(threads[t].todo) = <<>>
                                THEN "count_load" ELSE "usage_load"]
    /\ UNCHANGED <<config, company_data, outcome, locals, calls, returned,
                   batch, tier_in, tier_out, history, fs, config_path,
                   matcher, retry>>

\* line 636: read of self.stats["companies_scored"]
ThreadCountLoad(t) ==
    /\ threads[t].pc = "count_load"
    /\ threads' = [threads EXCEPT ![t].reg = stats.companies_scored,
                                  ![t].pc = "count_store"]
    /\ UNCHANGED <<config, stats, company_data, outcome, locals, calls,
                   returned, batch, tier_in, tier_out, history, fs,
                   config_path,
                   matcher, retry>>

\* line 636: write of self.stats["companies_scored"]; line 640: the tier
\* is counted only when it is a key of tier_distribution
ThreadCountStore(t) ==
    /\ threads[t].pc = "count_store"
    /\ stats' = [stats EXCEPT !.companies_scored = threads[t].reg + 1]
    /\ threads' = [threads EXCEPT
                      ![t].pc =
                          IF ThreadOutcome(t).outcome.result
                                 .tier_classification
                                 \in DOMAIN stats.tier_distribution
                          THEN "tier_load" ELSE "return"]
    /\ UNCHANGED <<config, company_data, outcome, locals, calls, returned,
                   batch, tier_in, tier_out, history, fs, config_path,
                   matcher, retry>>

\* line 641: read of self.stats["tier_distribution"][tier]
ThreadTierLoad(t) ==
    /\ threads[t].pc = "tier_load"
    /\ threads' = [threads EXCEPT
                      ![t].reg = stats.tier_distribution[
                          ThreadOutcome(t).outcome.result.tier_classification],
                      ![t].pc = "tier_store"]
    /\ UNCHANGED <<config, stats, company_data, outcome, locals, calls,
                   returned, batch, tier_in, tier_out, history, fs,
                   config_path,
                   matcher, retry>>

\* line 641: write of self.stats["tier_distribution"][tier]
ThreadTierStore(t) ==
    /\ threads[t].pc = "tier_store"
    /\ stats' = [stats EXCEPT
                    !.tier_distribution[
                        ThreadOutcome(t).outcome.result.tier_classification]
                        = threads[t].reg + 1]
    /\ threads' = [threads EXCEPT ![t].pc = "return"]
    /\ UNCHANGED <<config, company_data, outcome, locals, calls, returned,
                   batch, tier_in, tier_out, history, fs, config_path,
                   matcher, retry>>

\* line 243: the call of thread t returns its result
ThreadReturn(t) ==
    /\ threads[t].pc = "return"
    /\ threads' = [threads EXCEPT ![t].pc = "done"]
    /\ returned' = Append(returned, ThreadOutcome(t).outcome.result)
    /\ calls' = calls + 1
    /\ UNCHANGED <<config, stats, company_data, outcome, locals, batch,
                   tier_in, tier_out, history, fs, config_path,
                   matcher, retry>>

NextConc ==
    \E t \in Threads :
        \/ \E cd \in ThreadRecords : ThreadCall(t, cd)
        \/ ThreadUsageLoad(t)
        \/ ThreadUsageStore(t)
        \/ ThreadCountLoad(t)
        \/ ThreadCountStore(t)
        \/ ThreadTierLoad(t)
        \/ ThreadTierStore(t)
        \/ ThreadReturn(t)

SpecConc ==
    InitConc /\ [][NextConc]_vars

---------------------------------------------------------------------------
(* A single _keyword_matches call *)

MatchTerms ==
    {W_hypersonic, W_nuclear, W_RF, W_defense_manufacturing,
     W_Electronic_Warfare, W_electronic_warfare_systems,
     W_low_rate_initial_production_run}

MatchTexts ==
    {<<>>, T_kw5, T_Hypersonic_Labs, T_defense_manufacturing,
     T_manufacturing_defense, T_nucleus, T_lrip4, T_lrip3,
     T_electronic_systems}

\* fuzzy matching left out of the configuration, and switched off
MatchConfigs ==
    {_get_default_config, CustomConfig}

InitMatch ==
    /\ \E cfg \in MatchConfigs : EngineInit(cfg, NoData, 0)
    /\ threads = NoThreads
    /\ fs = NoFiles
    /\ config_path = NoPath
    /\ retry = NoRetry
    /\ \E keyword \in MatchTerms : \E text \in MatchTexts :
          matcher = [called |-> FALSE, keyword |-> keyword, text |-> text,
                     result |-> FALSE]

\* the call self._keyword_matches(keyword, text)
KeywordMatches ==
    /\ ~matcher.called
    /\ matcher' = [matcher EXCEPT
                      !.called = TRUE,
                      !.result = _keyword_matches(config, matcher.keyword,
                                                  matcher.text)]
    /\ UNCHANGED <<config, stats, company_data, outcome, locals, calls,
                   returned, batch, tier_in, tier_out, history, threads, fs,
                   config_path, retry>>

NextMatch ==
    KeywordMatches

SpecMatch ==
    InitMatch /\ [][NextMatch]_vars

---------------------------------------------------------------------------
(* One call of a function wrapped by retry_with_backoff(max_retries,
   backoff_factor): what the wrapped function does on each invocation is
   not the wrapper's choice.  Delays are in tenths of a second. *)

MaxRetries ==
    3

\* backoff_factor 0.1, 1.0 and 2.0, the values the repository uses
BackoffFactors ==
    {1, 10, 20}

\* mutant: the delay grows linearly with the attempt
Delay_Linear(backoff_factor, attempt) ==
    backoff_factor * (attempt + 1)

\* line 250: backoff_factor * (2 ** attempt)
Delay(backoff_factor, attempt) ==
    backoff_factor * 2^attempt

InitRetry ==
    /\ EngineInit(_get_default_config, NoData, 0)
    /\ threads = NoThreads
    /\ fs = NoFiles
    /\ config_path = NoPath
    /\ matcher = NoMatcher
    /\ \E m \in 0..MaxRetries : \E b \in BackoffFactors :
          retry = [pc |-> "call", max_retries |-> m, backoff_factor |-> b,
                   attempt |-> 0, invocations |-> 0, slept |-> <<>>,
                   exc |-> "none"]

\* line 235: func returns; the wrapper returns its result
FuncReturns ==
    /\ retry.pc = "call"
    /\ retry' = [retry EXCEPT !.pc = "returned",
                              !.invocations = @ + 1]
    /\ UNCHANGED <<config, stats, company_data, outcome, locals, calls,
                   returned, batch, tier_in, tier_out, history, threads, fs,
                   config_path, matcher>>

\* lines 237-247: func raises one of retry_exceptions; on the last attempt
\* the wrapper raises RetryableError, otherwise it goes on to sleep
FuncRaisesRetryable ==
    /\ retry.pc = "call"
    /\ retry' = IF retry.attempt = retry.max_retries
                THEN [retry EXCEPT !.pc = "raised",
                                   !.invocations = @ + 1,
                                   !.exc = "RetryableError"]
                ELSE [retry EXCEPT !.pc = "sleep",
                                   !.invocations = @ + 1]
    /\ UNCHANGED <<config, stats, company_data, outcome, locals, calls,
                   returned, batch, tier_in, tier_out, history, threads, fs,
                   config_path, matcher>>

\* lines 250-257: time.sleep(delay), then the next iteration of the loop
Sleep ==
    /\ retry.pc = "sleep"
    /\ retry' = [retry EXCEPT
                    !.pc = "call",
                    !.slept = Append(@, Delay(retry.backoff_factor,
                                              retry.attempt)),
                    !.attempt = @ + 1]
    /\ UNCHANGED <<config, stats, company_data, outcome, locals, calls,
                   returned, batch, tier_in, tier_out, history, threads, fs,
                   config_path, matcher>>

\* lines 259-263: func raises an exception outside retry_exceptions, which
\* is raised again at once
FuncRaisesOther ==
    /\ retry.pc = "call"
    /\ retry' = [retry EXCEPT !.pc = "propagated",
                              !.invocations = @ + 1,
                              !.exc = "other"]
    /\ UNCHANGED <<config, stats, company_data, outcome, locals, calls,
                   returned, batch, tier_in, tier_out, history, threads, fs,
                   config_path, matcher>>

NextRetry ==
    \/ FuncReturns
    \/ FuncRaisesRetryable
    \/ Sleep
    \/ FuncRaisesOther

SpecRetry ==
    InitRetry /\ [][NextRetry]_vars

---------------------------------------------------------------------------
(* Construction: AtomustamScoringEngine(config_path) on a file system *)

DefaultYamlPath ==
    "config/scoring_config.yaml"

JsonPath ==
    "data/scoring_weights.json"

CustomPath ==
    "conf/custom.yaml"

Paths ==
    {DefaultYamlPath, JsonPath, CustomPath}

\* no file at the path
Missing ==
    [exists |-> FALSE, parses |-> FALSE, config |-> None]

\* a file the parser (yaml.safe_load, json.load) raises on
Unparsable ==
    [exists |-> TRUE, parses |-> FALSE, config |-> None]

\* a file holding the document cfg
FileOf(cfg) ==
    [exists |-> TRUE, parses |-> TRUE, config |-> cfg]

\* a file holding an empty document: the parser returns None
EmptyDocument ==
    FileOf(None)

FileStates ==
    {Missing, Unparsable, EmptyDocument, FileOf(CustomConfig),
     FileOf(NamedTiersConfig)}

\* self.config before __init__ assigns it
NotLoaded ==
    [loaded |-> FALSE]

\* line 81: Path(config_path or "config/scoring_config.yaml")
YamlPath(path) ==
    IF path = NoPath THEN DefaultYamlPath ELSE path

\* lines 83-85, 90-92: open and parse; the except of lines 100-103 returns
\* the default configuration
ParsedOrDefault(file) ==
    IF file.parses THEN file.config ELSE _get_default_config

\* mutant: a missing requested file is looked up at the default YAML path
_load_scoring_config_TriesDefaultYaml(files, path) ==
    IF files[YamlPath(path)].exists
    THEN ParsedOrDefault(files[YamlPath(path)])
    ELSE IF files[DefaultYamlPath].exists
    THEN ParsedOrDefault(files[DefaultYamlPath])
    ELSE IF files[JsonPath].exists
    THEN ParsedOrDefault(files[JsonPath])
    ELSE _get_default_config

_load_scoring_config(files, path) ==
    IF files[YamlPath(path)].exists
    THEN ParsedOrDefault(files[YamlPath(path)])
    ELSE IF files[JsonPath].exists
    THEN ParsedOrDefault(files[JsonPath])
    ELSE _get_default_config

InitLoad ==
    /\ EngineInit(NotLoaded, NoData, 0)
    /\ threads = NoThreads
    /\ fs \in [Paths -> FileStates]
    /\ config_path \in {NoPath, CustomPath}
    /\ matcher = NoMatcher
    /\ retry = NoRetry

\* AtomustamScoringEngine.__init__(config_path)
LoadConfig ==
    /\ config = NotLoaded
    /\ config' = _load_scoring_config(fs, config_path)
    /\ stats' = InitStats
    /\ UNCHANGED <<company_data, outcome, locals, calls, returned, batch,
                   tier_in, tier_out, history, threads, fs, config_path,
                   matcher, retry>>

\* the records scored on the constructed engine
LoadRecords ==
    {Dict([name |-> Str(T_acme), description |-> Str(T_kw4)]),
     Dict([description |-> Str(T_kw4)])}

\* the first score_company call on the constructed engine
ScoreLoaded ==
    /\ config # NotLoaded
    /\ calls = 0
    /\ \E cd \in LoadRecords : ScoreCompany(cd, EmptyDict)

NextLoad ==
    \/ LoadConfig
    \/ ScoreLoaded

SpecLoad ==
    InitLoad /\ [][NextLoad]_vars

---------------------------------------------------------------------------
(* Properties *)

\* the value of key in the record handed to the last call, None if absent
Given(key) ==
    Get(company_data.fields, key, None)

NameMissing(cd) ==
    Get(cd.fields, "name", None).tag = "none"

NameNonEmpty(cd) ==
    Get(cd.fields, "name", None).tag = "str"
    /\ Get(cd.fields, "name", None).s # <<>>

Returned ==
    outcome.kind = "result"

\* a tenths value as a total score in millionths
FromTenths(t) ==
    t * (MICRO \div 10)

(* C1: the tier carried by every result returned by score_company is the
   tier _classify_tier assigns to the result's reported, 1-decimal rounded
   total_score. *)
C1_TierOfReportedTotal ==
    Returned =>
        outcome.result.tier_classification
            = _classify_tier(config, FromTenths(outcome.result.total_score))

\* the tier ranges of cfg that contain total_score (in millionths)
RangesContaining(cfg, total_score) ==
    {i \in 1..Len(cfg.tier_classification) :
        /\ cfg.tier_classification[i].min_score * MICRO <= total_score
        /\ total_score <= cfg.tier_classification[i].max_score * MICRO}

(* C2: under the default tier thresholds every total score in [0,100] lies
   inside exactly one configured tier range, and _classify_tier returns
   that tier, so the fallthrough to "excluded" is never taken. *)
C2_DefaultTiersPartition ==
    (config = _get_default_config /\ tier_out # "unset") =>
        /\ Cardinality(RangesContaining(config, tier_in)) = 1
        /\ \A i \in RangesContaining(config, tier_in) :
              tier_out = config.tier_classification[i].tier

\* the result key averaged under each average_scores key
ComponentOf ==
    [total |-> "total_score", defense |-> "defense_contract_score",
     technology |-> "technology_relevance_score",
     compliance |-> "compliance_indicators_score",
     firmographics |-> "firmographics_score"]

\* sum over the results returned so far of a component score, in tenths
SumReturned(component) ==
    SumFn([i \in 1..Len(returned) |->
              returned[i].component_scores[component]])

Abs(x) ==
    IF x < 0 THEN -x ELSE x

(* C3: after n >= 1 successful score_company calls, each running average
   in the statistics equals the arithmetic mean of the corresponding values
   of the n results, up to 1-decimal rounding (half a tenth). *)
C3_RunningAverages ==
    Len(returned) >= 1 =>
        \A k \in AverageKeys :
            2 * Abs(stats.average_scores[k] * Len(returned)
                    - SumReturned(ComponentOf[k])) <= Len(returned)

(* C4: score_company returns a result, never raises, for every record
   whose name is a non-empty string, whichever optional fields are absent
   or None. *)
C4_NonEmptyNameNeverRaises ==
    (calls = 1 /\ NameNonEmpty(company_data)) => Returned

(* C5: a score_company call on a record whose name is absent or None
   raises a DataValidationError with field_name "name", produces no result
   and leaves every engine statistic unchanged. *)
C5_MissingNameRejected ==
    [][(calls' = calls + 1 /\ batch' = batch /\ NameMissing(company_data'))
        => /\ outcome'.kind = "raised"
           /\ outcome'.exc.type = "DataValidationError"
           /\ outcome'.exc.field_name = "name"
           /\ returned' = returned
           /\ stats' = stats]_vars

\* a call on a record without a name failed on an engine that had already
\* scored a company
C5_Witness ==
    /\ outcome.kind = "raised"
    /\ NameMissing(company_data)
    /\ company_data.kind = "CompanyData"
    /\ stats.companies_scored >= 1
    /\ DOMAIN stats.keyword_usage # {}

(* C6: a record whose name is the empty string is rejected by
   score_company with a validation error and no result is produced. *)
C6_EmptyNameRejected ==
    (calls = 1 /\ Given("name") = Str(<<>>)) =>
        /\ outcome.kind = "raised"
        /\ outcome.exc.type = "DataValidationError"

\* how many records of the batch lack a name
MissingNames(companies) ==
    Cardinality({i \in 1..Len(companies) : NameMissing(companies[i])})

(* C7: after batch_score_companies over N records, every record is in
   exactly one of the result list and the failed list, and with exactly one
   record missing its name there are N-1 results and 1 failed entry. *)
C7_BatchPartition ==
    batch.called =>
        /\ Len(batch.results) + Len(batch.failed_companies)
              = Len(batch.companies)
        /\ MissingNames(batch.companies) = 1 =>
              /\ Len(batch.results) = Len(batch.companies) - 1
              /\ Len(batch.failed_companies) = 1

ScorerLocals ==
    {"defense_score", "technology_score", "compliance_score",
     "firmographics_score"}

(* C8: each of the four component scorers returns a value in [0,100], for
   every record and every configuration. *)
C8_ScorersBounded ==
    locals.stage # "none" =>
        \A k \in ScorerLocals : 0 <= locals[k] /\ locals[k] <= 100 * CENTI

(* C9: the total_score of every result returned by score_company lies in
   [0,100], whatever the weights and the bonus multiplier. *)
C9_TotalBounded ==
    Returned =>
        /\ 0 <= outcome.result.total_score
        /\ outcome.result.total_score <= 100 * 10
        /\ outcome.result.component_scores["total_score"]
              = outcome.result.total_score

\* a result whose weighted total was negative: a positive defense score
\* under a negative defense weight, nothing else contributing
C9_Witness ==
    /\ Returned
    /\ config.scoring_weights.defense_contract_score < 0
    /\ locals.defense_score > 0
    /\ locals.technology_score = 0
    /\ locals.compliance_score = 0
    /\ locals.firmographics_score = 0
    /\ outcome.result.total_score = 0

\* v when 0 <= v <= 100, else the nearer bound (hundredths)
NearestInRange(v) ==
    IF v < 0 THEN 0 ELSE IF v > 100 * CENTI THEN 100 * CENTI ELSE v

\* the scorer local fed by each precomputed field
PrecomputedLocal ==
    [defense_contract_score |-> "defense_score",
     technology_relevance_score |-> "technology_score",
     compliance_indicators_score |-> "compliance_score"]

(* C10: a numeric precomputed defense_contract_score,
   technology_relevance_score or compliance_indicators_score v makes the
   corresponding scorer return v when 0 <= v <= 100 and the nearer bound
   otherwise, whatever the raw fields hold. *)
C10_PrecomputedPassThrough ==
    locals.stage # "none" =>
        \A key \in DOMAIN PrecomputedLocal :
            Given(key).tag = "num" =>
                locals[PrecomputedLocal[key]] = NearestInRange(Given(key).n)

\* a precomputed defense score of 0 was passed through although the record
\* carries a CAGE code that the raw computation would score
C10_Witness ==
    /\ locals.stage = "done"
    /\ Given("defense_contract_score") = Num(0)
    /\ Truthy(Given("cage_code"))
    /\ locals.defense_score = 0

\* the number of matched terms over all categories of the returned result
MatchedTerms ==
    SumFn([k \in DOMAIN outcome.result.keyword_matches |->
              Len(outcome.result.keyword_matches[k])])

\* the weighted sum of the four sub-scores of the last call, in 1/10^4
WeightedTotal ==
    locals.defense_score * config.scoring_weights.defense_contract_score
    + locals.technology_score * config.scoring_weights.technology_relevance
    + locals.compliance_score * config.scoring_weights.compliance_indicators
    + locals.firmographics_score * config.scoring_weights.firmographics

\* the configured bonus multiplier, in hundredths
BonusMultiplier ==
    IF "algorithm_parameters" \in DOMAIN config
    THEN config.algorithm_parameters.bonus_multiplier
    ELSE 120

\* a total in millionths brought into [0,100]
InRange100(x) ==
    IF x < 0 THEN 0 ELSE IF x > 100 * MICRO THEN 100 * MICRO ELSE x

(* C11: score_company multiplies the weighted total by bonus_multiplier,
   capped at 100, if and only if the matched terms summed over all keyword
   categories number at least 5; with fewer the weighted total is left
   unmultiplied. *)
C11_BonusIffFiveMatches ==
    Returned =>
        /\ MatchedTerms >= 5 =>
              locals.total_score
                  = InRange100(Min(WeightedTotal * BonusMultiplier,
                                   100 * MICRO))
        /\ MatchedTerms < 5 =>
              locals.total_score = InRange100(WeightedTotal * CENTI)

\* exactly five matched terms, two of them from the compliance and
\* technology groups, and a total that the multiplier raised
C11_Witness ==
    /\ Returned
    /\ MatchedTerms = 5
    /\ \E k \in DOMAIN outcome.result.keyword_matches :
          k[1] \in KeywordGroups
    /\ WeightedTotal > 0
    /\ BonusMultiplier > CENTI
    /\ locals.total_score = WeightedTotal * BonusMultiplier
    /\ locals.total_score < 100 * MICRO

\* the scorers that ended in their except branch in the last call
FailedScorers ==
    {k \in ScorerLocals :
        \/ k = "defense_score" /\ DefenseRaises(company_data.fields)
        \/ k = "technology_score" /\ TechnologyRaises(company_data.fields)
        \/ k = "compliance_score" /\ ComplianceRaises(company_data.fields)
        \/ k = "firmographics_score"
           /\ FirmographicsRaises(config, company_data.fields)}

\* the fields only one scorer reads, by scorer
OwnFields ==
    [defense_score |-> {"defense_contract_score"},
     technology_score |-> {"technology_relevance_score"},
     compliance_score |-> {"compliance_indicators_score"},
     firmographics_score |-> {"employee_count", "annual_revenue", "country"}]

\* the record of the last call without the fields that made scorer k fail
WithoutFailure(k) ==
    [f \in DOMAIN company_data.fields \ OwnFields[k] |->
        company_data.fields[f]]

\* the four sub-scores the scorers give a record
SubScores(cfg, company_dict) ==
    [defense_score |-> _calculate_defense_score(cfg, company_dict),
     technology_score |-> _calculate_technology_score(cfg, company_dict),
     compliance_score |-> _calculate_compliance_score(cfg, company_dict),
     firmographics_score |->
        _calculate_firmographics_score(cfg, company_dict)]

(* C12: when exactly one component scorer raises internally for a record
   that passed name validation, that scorer's sub-score is 0, the other
   three sub-scores are those of the record without the failing fields,
   and score_company returns a result. *)
C12_ScorerFailureIsolated ==
    locals.stage # "none" =>
        \A k \in ScorerLocals :
            FailedScorers = {k} =>
                /\ Returned
                /\ locals[k] = 0
                /\ \A j \in ScorerLocals \ {k} :
                      locals[j] = SubScores(config, WithoutFailure(k))[j]

\* the firmographics scorer alone failed, on a malformed range entry, and
\* lost the points it would otherwise give; the defense scorer still scored
C12_Witness ==
    /\ Returned
    /\ FailedScorers = {"firmographics_score"}
    /\ TextRaises(company_data.fields, {"industry", "country"}) = FALSE
    /\ Given("employee_count").tag = "num"
    /\ locals.firmographics_score = 0
    /\ locals.defense_score > 0
    /\ SubScores(config, WithoutFailure("firmographics_score"))
           .firmographics_score > 0

\* the results returned so far that carry tier label t
ResultsInTier(t) ==
    {i \in 1..Len(returned) : returned[i].tier_classification = t}

(* C13: after any sequence of score_company calls on one engine,
   companies_scored is the number of calls that returned a result, for
   every tier label t carried by some result tier_distribution[t] is the
   number of results with that label, and the tier counts sum to
   companies_scored. *)
C13_TierCountsMatchResults ==
    /\ stats.companies_scored = Len(returned)
    /\ \A i \in 1..Len(returned) :
          /\ returned[i].tier_classification
                \in DOMAIN stats.tier_distribution
          /\ stats.tier_distribution[returned[i].tier_classification]
                = Cardinality(ResultsInTier(returned[i].tier_classification))
    /\ SumFn(stats.tier_distribution) = stats.companies_scored

\* the (result, category) pairs whose match list holds term
MatchPairs(term) ==
    {p \in UNION {{<<i, k>> : k \in DOMAIN returned[i].keyword_matches} :
                     i \in 1..Len(returned)} :
        \E j \in 1..Len(returned[p[1]].keyword_matches[p[2]]) :
            returned[p[1]].keyword_matches[p[2]][j] = term}

\* every term matched in some returned result
MatchedSomewhere ==
    UNION {UNION {{returned[i].keyword_matches[k][j] :
                      j \in 1..Len(returned[i].keyword_matches[k])} :
                  k \in DOMAIN returned[i].keyword_matches} :
           i \in 1..Len(returned)}

(* C14: after any sequence of successful score_company calls, for every
   configured term keyword_usage[term] is the number of (result, category)
   pairs in which the term appears in keyword_matches, terms of the
   compliance and technology keyword groups included. *)
C14_KeywordUsageCountsMatches ==
    \A term \in MatchedSomewhere \cup DOMAIN stats.keyword_usage :
        /\ term \in DOMAIN stats.keyword_usage
        /\ stats.keyword_usage[term] = Cardinality(MatchPairs(term))

\* the statistics after the calls of all threads, run one after another
SequentialStats ==
    StatsAfterAll(InitStats, [t \in Threads |-> ThreadOutcome(t)], 1)

(* C15: when several score_company calls run concurrently on one engine,
   no statistics update is lost: once k calls have all returned results,
   companies_scored = k and the tier and keyword-usage counts are those of
   a sequential execution of the same k calls. *)
C15_ConcurrentUpdatesSerialized ==
    (\A t \in Threads : threads[t].pc = "done") =>
        /\ stats.companies_scored = NumThreads
        /\ stats.tier_distribution = SequentialStats.tier_distribution
        /\ stats.keyword_usage = SequentialStats.keyword_usage

\* the free-text fields of the last call's record that hold term,
\* case-insensitively
FieldsHolding(term) ==
    {f \in FreeTextFields :
        /\ Given(f).tag = "str"
        /\ Contains(Lower(term), Lower(Given(f).s))}

\* the terms reported for category c of config["keywords"]
Reported(c) ==
    Get(outcome.result.keyword_matches, <<"keywords", c>>, <<>>)

(* C16: the keyword matcher searches description, research summary,
   contract history, technology-keywords-found, industry and name: a
   configured term that occurs, case-insensitively, in exactly one of these
   fields is reported as a match in its category. *)
C16_EveryFreeTextFieldSearched ==
    Returned =>
        \A c \in PrimaryCategories(config) :
            \A i \in 1..Len(config.keywords[c].terms) :
                Cardinality(FieldsHolding(config.keywords[c].terms[i])) = 1
                    => \E j \in 1..Len(Reported(c)) :
                          Reported(c)[j] = config.keywords[c].terms[i]

\* every order in which the matcher's fields can be concatenated
FieldOrders ==
    {[i \in 1..Len(MatcherFields) |-> MatcherFields[p[i]]] :
        p \in {q \in [1..Len(MatcherFields) -> 1..Len(MatcherFields)] :
                  \A a, b \in 1..Len(MatcherFields) :
                      a # b => q[a] # q[b]}}

\* the orders that permute the fields holding text in the last call's
\* record and leave the empty ones in place
OrdersOfGiven ==
    {order \in FieldOrders :
        \A i \in 1..Len(MatcherFields) :
            GetText(company_data.fields, MatcherFields[i]).s = <<>>
                => order[i] = MatcherFields[i]}

(* C17: the category-to-terms mapping does not depend on the order in
   which the free-text fields are concatenated, with fuzzy matching enabled
   or disabled: every order of the fields that hold text yields the mapping
   the call returned, so no multi-word term is matched only because its
   words straddle the boundary between two adjacent fields. *)
C17_MatchesOrderIndependent ==
    Returned =>
        \A order \in OrdersOfGiven :
            KeywordMatchesIn(config,
                             Lower(JoinFields(company_data.fields, order, 1)))
                = outcome.result.keyword_matches

\* the calls made so far, in pairs of an earlier and a later call that got
\* the same record and additional_data
Repeats ==
    {p \in (1..Len(history)) \X (1..Len(history)) :
        /\ p[1] < p[2]
        /\ history[p[1]].company_data = history[p[2]].company_data
        /\ history[p[1]].additional_data = history[p[2]].additional_data}

\* what the claim compares of two outcomes
Observed(out) ==
    IF out.kind = "result"
    THEN <<out.result.keyword_matches, out.result.component_scores,
           out.result.total_score, out.result.tier_classification>>
    ELSE <<out.kind>>

(* C18: scoring the same record twice on one engine yields identical
   keyword_matches, component scores, total score and tier, whatever
   statistics the engine accumulated between the two calls. *)
C18_SameRecordSameOutcome ==
    \A p \in Repeats :
        Observed(history[p[1]].outcome) = Observed(history[p[2]].outcome)

\* a record with keyword matches was scored twice, the second time on an
\* engine whose statistics already count its terms
C18_Witness ==
    /\ \E p \in Repeats :
          /\ history[p[2]].outcome.kind = "result"
          /\ history[p[2]].outcome.result.keyword_matches # <<>>
    /\ stats.companies_scored = 2
    /\ \E t \in DOMAIN stats.keyword_usage : stats.keyword_usage[t] = 2

(* C19: score_company and batch_score_companies leave the caller's input
   records, the additional_data mapping and the engine's configuration
   unchanged, whether the call succeeds or fails. *)
C19_InputsAndConfigUnchanged ==
    [][/\ config' = config
       /\ \A i \in 1..Len(history') :
             /\ history'[i].after.company_data = history'[i].company_data
             /\ history'[i].after.additional_data
                   = history'[i].additional_data]_vars

\* a call merged a non-empty additional_data into a dict and returned a
\* result, and a batch call recorded a failure
C19_Witness ==
    /\ \E i \in 1..Len(history) :
          /\ history[i].company_data.kind = "dict"
          /\ history[i].additional_data # EmptyDict
          /\ history[i].outcome.kind = "result"
    /\ batch.called
    /\ Len(batch.failed_companies) = 1

\* the constructor has run with a requested path at which no file exists
RequestedMissing ==
    /\ config # NotLoaded
    /\ config_path # NoPath
    /\ ~fs[config_path].exists

(* C20: if the configuration file at the requested path does not exist when
   the engine is constructed, the engine's configuration is exactly the
   built-in default configuration. *)
C20_MissingFileGivesDefault ==
    RequestedMissing => config = _get_default_config

(* C20, amended: if neither the file at the requested path nor the fallback
   file data/scoring_weights.json exists when the engine is constructed, the
   engine's configuration is exactly the built-in default configuration. *)
C20_MissingFilesGiveDefault ==
    (RequestedMissing /\ ~fs[JsonPath].exists)
        => config = _get_default_config

\* constructed with a missing requested file and no JSON fallback, while a
\* readable file sits at the default YAML path
C20_Witness ==
    /\ RequestedMissing
    /\ ~fs[JsonPath].exists
    /\ fs[DefaultYamlPath].parses
    /\ config = _get_default_config

\* the file the constructor reads: the requested or default YAML file if
\* it exists, else the JSON file
ConfigSource ==
    IF fs[YamlPath(config_path)].exists THEN fs[YamlPath(config_path)]
    ELSE fs[JsonPath]

\* the constructor has run on a source that exists and is malformed
MalformedSource ==
    /\ config # NotLoaded
    /\ ConfigSource.exists
    /\ ~ConfigSource.parses \/ ConfigSource.config = None

(* C21: if the configuration source exists but is malformed (unparseable,
   or parsing to something that is not a mapping, such as an empty
   document), the engine's configuration is the built-in default and a
   later score_company call on a valid record returns a result. *)
C21_MalformedSourceGivesDefault ==
    MalformedSource =>
        /\ config = _get_default_config
        /\ (calls = 1 /\ NameNonEmpty(company_data))
              => outcome.kind = "result"

\* the record the call scored, as the dict the scorers read
Scored ==
    asdict(company_data)

\* the text of the fields named, joined by single spaces, in lower case
TextOf(fields) ==
    Lower(JoinFields(Scored, fields, 1))

\* how many of the words occur in the text, case-insensitively
Present(words, text) ==
    Cardinality({i \in 1..Len(words) : Contains(Lower(words[i]), text)})

Points(p, present) ==
    IF present THEN p ELSE 0

\* the scorers ran, and the scorer of `key` computed from text fields that
\* all hold text
ComputedFrom(key, fields) ==
    /\ locals.stage # "none"
    /\ ~HasPrecomputed(Scored, key)
    /\ ~TextRaises(Scored, fields)

(* C22: without a precomputed value the Defense-Contract score is
   min(100, 15*[CAGE] + 10*[DUNS] + 20*[contract history] + min(5k, 25)
   + 30*[industry names a defense industry]), k the number of the six
   keywords defense, military, aerospace, DoD, government, contractor found
   case-insensitively in description and research summary. *)
C22_DefenseScoreFormula ==
    ComputedFrom("defense_contract_score",
                 {"description", "research_summary", "industry"})
        => locals.defense_score
             = CENTI * Min(100,
                   Points(15, Truthy(Get(Scored, "cage_code", None)))
                 + Points(10, Truthy(Get(Scored, "duns_number", None)))
                 + Points(20, Truthy(Get(Scored, "contract_history", None)))
                 + Min(5 * Present(defense_keywords,
                                   TextOf(<<"description",
                                            "research_summary">>)), 25)
                 + Points(30, Present(defense_industries,
                                      TextOf(<<"industry">>)) > 0))

\* the points of the first configured range of `section` that contains
\* the record's value of `field`; 0 when the record has no value
FirstRangePoints(field, section) ==
    IF Get(Scored, field, None).tag # "num" THEN 0
    ELSE RangePoints(Get(Get(Get(config, "firmographics", EmptyDict),
                             section, EmptyDict), "ranges", <<>>),
                     Get(Scored, field, None).n, 1).points

\* the points of the first industry keyword, in declared order, found in
\* the industry text
FirstIndustryPoints ==
    IF \A i \in 1..Len(industry_mappings) :
           ~Contains(industry_mappings[i].key, TextOf(<<"industry">>))
    THEN 0
    ELSE industry_mappings[
             CHOOSE i \in 1..Len(industry_mappings) :
                 /\ Contains(industry_mappings[i].key, TextOf(<<"industry">>))
                 /\ \A j \in 1..(i - 1) :
                       ~Contains(industry_mappings[j].key,
                                 TextOf(<<"industry">>))].points

\* employee count and revenue are missing or numbers >= 0, and the scorer
\* met no malformed range entry or non-text field
FirmographicsComputed ==
    /\ locals.stage # "none"
    /\ ~FirmographicsRaises(config, Scored)
    /\ \A f \in {"employee_count", "annual_revenue"} :
          /\ Get(Scored, f, None).tag \in {"none", "num"}
          /\ Get(Scored, f, None).n >= 0

(* C23: the Firmographics score is min(100, E + R + I + U): E and R the
   points of the first configured range containing the employee count and
   the revenue, I the points of the first industry keyword found, U = 5 for
   a US country; it holds for every count and revenue >= 0, a 0 lying in a
   configured range included. *)
C23_FirmographicsScoreFormula ==
    FirmographicsComputed
        => locals.firmographics_score
             = CENTI * Min(100,
                   FirstRangePoints("employee_count", "employee_count")
                 + FirstRangePoints("annual_revenue", "revenue")
                 + FirstIndustryPoints
                 + Points(5, TextOf(<<"country">>) \in us_countries))

\* the whitespace-delimited words of the term of the matcher call
TermWords ==
    Split(Lower(matcher.keyword))

\* how many of the term's words occur in the text on their own
WordsFound ==
    Cardinality({i \in 1..Len(TermWords) :
                    Contains(TermWords[i], Lower(matcher.text))})

ExactMatch ==
    Contains(Lower(matcher.keyword), Lower(matcher.text))

\* the first four characters of the term, the whole term if shorter
TermStem ==
    SubSeq(Lower(matcher.keyword), 1, Min(4, Len(matcher.keyword)))

(* C24: _keyword_matches(term, text) is true exactly when the term occurs
   in the text as a case-insensitive substring, or fuzzy matching is enabled
   (the default) and either the term has two or more words of which at
   least 80% occur in the text, or it is a single word whose first four
   characters occur in the text. *)
C24_KeywordMatchesExactly ==
    matcher.called =>
        (matcher.result <=>
            \/ ExactMatch
            \/ /\ FuzzyEnabled(config)
               /\ \/ Len(TermWords) >= 2 /\ 100 * WordsFound >= 80 * Len(TermWords)
                  \/ Len(TermWords) = 1 /\ Contains(TermStem, Lower(matcher.text)))

\* the call matched a five-word term on exactly four of its words, with
\* the fuzzy flag absent from the configuration
C24_Witness ==
    /\ matcher.called
    /\ matcher.result
    /\ ~ExactMatch
    /\ Len(TermWords) = 5
    /\ WordsFound = 4
    /\ "algorithm_parameters" \notin DOMAIN config

\* the configured categories of a keyword group
Categories(group) ==
    Get(config, group, EmptyDict)

\* min(found_count * (category_points / category_term_count) * 10,
\* category_points) of one technology category, in hundredths
TechnologyCategory(cat, text) ==
    IF Present(cat.keywords, text) = 0 THEN 0
    ELSE Min((Present(cat.keywords, text) * cat.points * 10 * CENTI)
                 \div Len(cat.keywords),
             cat.points * CENTI)

TechnologyText ==
    TextOf(<<"description", "research_summary", "technology_keywords_found",
             "industry">>)

(* C25: without a precomputed value the Technology-Relevance score is
   min(100, sum over the configured technology categories of
   min(found_count * (points / term_count) * 10, points) + min(5m, 20)), m
   the number of the seven fixed indicators present in the text; a category
   with no term found contributes 0. *)
C25_TechnologyScoreFormula ==
    ComputedFrom("technology_relevance_score",
                 {"description", "research_summary",
                  "technology_keywords_found", "industry"})
        => locals.technology_score
             = Min(100 * CENTI,
                   SumFn([c \in DOMAIN Categories("technology_keywords") |->
                            TechnologyCategory(
                                Categories("technology_keywords")[c],
                                TechnologyText)])
                 + CENTI * Min(5 * Present(tech_indicators, TechnologyText),
                               20))

\* a call computed the technology score from a configured category with a
\* term found and from mixed-case indicators
C25_Witness ==
    /\ ComputedFrom("technology_relevance_score",
                    {"description", "research_summary",
                     "technology_keywords_found", "industry"})
    /\ \E c \in DOMAIN Categories("technology_keywords") :
          Present(Categories("technology_keywords")[c].keywords,
                  TechnologyText) > 0
    /\ Contains(Lower(W_AI), TechnologyText)
    /\ locals.technology_score = 23 * CENTI

\* min(found_count * (category_points / 2), category_points) of one
\* compliance category, in hundredths
ComplianceCategory(cat, text) ==
    Min((Present(cat.terms, text) * cat.points * CENTI) \div 2,
        cat.points * CENTI)

ComplianceText ==
    TextOf(<<"description", "research_summary",
             "technology_keywords_found">>)

(* C26: without a precomputed value the Compliance-Indicators score is
   min(100, sum over the configured compliance categories of
   min(found_count * (points / 2), points) + min(8c, 25)), c the number of
   the seven fixed certification indicators present in the text. *)
C26_ComplianceScoreFormula ==
    ComputedFrom("compliance_indicators_score",
                 {"description", "research_summary",
                  "technology_keywords_found"})
        => locals.compliance_score
             = Min(100 * CENTI,
                   SumFn([c \in DOMAIN Categories("compliance_keywords") |->
                            ComplianceCategory(
                                Categories("compliance_keywords")[c],
                                ComplianceText)])
                 + CENTI * Min(8 * Present(cert_indicators, ComplianceText),
                               25))

\* a call computed the compliance score of a text naming four certification
\* indicators: the bonus is capped at 25
C26_Witness ==
    /\ ComputedFrom("compliance_indicators_score",
                    {"description", "research_summary",
                     "technology_keywords_found"})
    /\ Present(cert_indicators, ComplianceText) = 4
    /\ locals.compliance_score = 25 * CENTI

\* the first declared tier range containing the classified score
FirstRange ==
    CHOOSE i \in RangesContaining(config, tier_in) :
        \A j \in RangesContaining(config, tier_in) : i <= j

(* C27: _classify_tier returns the first tier, in declaration order, whose
   inclusive range [min_score, max_score] contains the score, and
   'excluded' when no configured range contains it. *)
C27_FirstContainingTier ==
    tier_out # "unset" =>
        tier_out = IF RangesContaining(config, tier_in) = {} THEN "excluded"
                   ELSE config.tier_classification[FirstRange].tier

\* a score on the shared endpoint of two declared ranges was given the
\* earlier-declared tier
C27_Witness ==
    /\ tier_out # "unset"
    /\ Cardinality(RangesContaining(config, tier_in)) = 2
    /\ tier_out = config.tier_classification[FirstRange].tier
    /\ tier_in = config.tier_classification[FirstRange].min_score * MICRO

\* score_company called on companies[i..] in turn, on an engine whose
\* statistics are st: the results returned, in order, and the statistics
\* left behind
RECURSIVE SequentialRun(_, _, _, _)
SequentialRun(cfg, st, companies, i) ==
    IF i > Len(companies) THEN [results |-> <<>>, stats |-> st]
    ELSE LET r == score_company(cfg, st, companies[i], EmptyDict)
             rest == SequentialRun(cfg, r.stats, companies, i + 1)
         IN  [results |-> (IF r.outcome.kind = "result"
                           THEN <<r.outcome.result>> ELSE <<>>)
                          \o rest.results,
              stats |-> rest.stats]

(* C28: batch_score_companies(records) returns, in input order, exactly the
   results score_company returns on each record in turn, failed records
   omitted, and leaves the engine statistics equal to those of that
   sequential run. *)
C28_BatchEqualsSequentialRun ==
    [][(~batch.called /\ batch'.called)
          => /\ batch'.results
                  = SequentialRun(config, stats, batch'.companies, 1).results
             /\ stats'
                  = SequentialRun(config, stats, batch'.companies, 1).stats]_vars

\* a batch whose first record failed and whose second record was scored
\* and counted
C28_Witness ==
    /\ batch.called
    /\ Len(batch.companies) = 2
    /\ Len(batch.failed_companies) = 1
    /\ Len(batch.results) = 1
    /\ history[Len(history) - 1].outcome.kind = "raised"
    /\ history[Len(history)].outcome.kind = "result"
    /\ stats.companies_scored = 1

\* the order excluded < tier_4 < tier_3 < tier_2 < tier_1
TierRank ==
    [excluded |-> 0, tier_4 |-> 1, tier_3 |-> 2, tier_2 |-> 3, tier_1 |-> 4]

\* the whole-point scores of [0, 100], in millionths
WholeScores ==
    {n * MICRO : n \in 0..100}

(* C30: under the built-in default configuration tier classification is
   monotone in the total score: for s1 <= s2 in [0, 100] the tier of s2 is
   at least as high as the tier of s1 in the order excluded < tier_4 <
   tier_3 < tier_2 < tier_1. *)
C30_TierMonotone ==
    (config = _get_default_config /\ tier_out # "unset") =>
        \A s1 \in WholeScores :
            s1 <= tier_in =>
                TierRank[_classify_tier(config, s1)] <= TierRank[tier_out]

\* the wrapper has returned or raised
RetryDone ==
    retry.pc \in {"returned", "raised", "propagated"}

\* the delays b * 2^i after the failed attempts i = 0..(n - 1)
BackoffDelays(n) ==
    [i \in 1..n |-> retry.backoff_factor * 2^(i - 1)]

(* C29: a function wrapped by retry_with_backoff(max_retries = m,
   backoff_factor = b) is invoked at most m + 1 times; the wrapper returns
   the first successful result, sleeps b * 2^i after the i-th failed attempt
   (i = 0..m-1), raises RetryableError after m + 1 retryable failures
   without a further sleep, and lets any other exception through at once. *)
C29_RetryWithBackoff ==
    /\ retry.invocations <= retry.max_retries + 1
    /\ retry.slept = BackoffDelays(Len(retry.slept))
    /\ retry.pc = "call" => Len(retry.slept) = retry.invocations
    /\ (retry.pc \in {"returned", "propagated"})
          => Len(retry.slept) = retry.invocations - 1
    /\ retry.pc = "raised"
          => /\ retry.exc = "RetryableError"
             /\ retry.invocations = retry.max_retries + 1
             /\ Len(retry.slept) = retry.max_retries
    /\ RetryDone => ~ENABLED NextRetry

\* three retries were used up: four invocations, delays b, 2b and 4b, then
\* RetryableError
C29_Witness ==
    /\ retry.pc = "raised"
    /\ retry.max_retries = 3
    /\ retry.invocations = 4
    /\ retry.slept = <<retry.backoff_factor, 2 * retry.backoff_factor,
                       4 * retry.backoff_factor>>

====
